---------------------------- MODULE Spec2Model ----------------------------
(***************************************************************************)
(* A model of the BYOK TypeScript SDK: the SSE stream decoder              *)
(* (parseSSEStream), the HTTP error classification (throwForStatus) and    *)
(* the request wrappers of the API namespaces.                             *)
(*                                                                         *)
(* Text is modelled as it is in the program: a response body is a sequence *)
(* of bytes (0..255), a JavaScript string is a sequence of UTF-16 code     *)
(* units.  TextDecoder, String.prototype.trim/split/startsWith/slice and   *)
(* JSON.parse are modelled by what they compute on those sequences.        *)
(***************************************************************************)
EXTENDS Integers, Sequences, FiniteSets, TLC

VARIABLES
    gen,    \* gen[s]: the generator of stream invocation s
    api     \* the client and the call made through it

-----------------------------------------------------------------------------
(* Characters and string helpers                                           *)

\* "\n", the separator of buffer.split("\n")
LF == 10

\* trimmed.slice(6): the length of the "data: " prefix
PrefixLen == 6

\* the literal "data: "
DataPrefix == <<100, 97, 116, 97, 58, 32>>

\* the literal "[DONE]"
DoneSentinel == <<91, 68, 79, 78, 69, 93>>

\* WhiteSpace and LineTerminator code units, as String.prototype.trim strips
IsTrimSpace(c) ==
    \/ c \in {9, 10, 11, 12, 13, 32, 160, 5760, 8232, 8233, 8239, 8287, 12288, 65279}
    \/ (c >= 8192 /\ c <= 8202)

RECURSIVE TrimStart(_)
TrimStart(s) ==
    IF s # <<>> /\ IsTrimSpace(Head(s)) THEN TrimStart(Tail(s)) ELSE s

RECURSIVE TrimEnd(_)
TrimEnd(s) ==
    IF s # <<>> /\ IsTrimSpace(s[Len(s)]) THEN TrimEnd(SubSeq(s, 1, Len(s) - 1)) ELSE s

\* String.prototype.trim
Trim(s) == TrimEnd(TrimStart(s))

\* String.prototype.startsWith
StartsWith(s, p) == Len(s) >= Len(p) /\ SubSeq(s, 1, Len(p)) = p

\* String.prototype.slice(n), n >= 0
Slice(s, n) == SubSeq(s, n + 1, Len(s))

\* the index of the first "\n" at or after i; Len(s) + 1 when there is none
NextBreak(s, i) ==
    CHOOSE j \in i..(Len(s) + 1) :
        /\ j = Len(s) + 1 \/ s[j] = LF
        /\ \A k \in i..(j - 1) : s[k] # LF

RECURSIVE SplitFrom(_, _, _)

\* the piece from start up to the separator at break, and the pieces after it
SplitAt(s, start, break, acc) ==
    IF break > Len(s) THEN Append(acc, SubSeq(s, start, Len(s)))
    ELSE SplitFrom(s, break + 1, Append(acc, SubSeq(s, start, break - 1)))

\* buffer.split("\n"): the pieces between the separators; never empty
SplitFrom(s, start, acc) == SplitAt(s, start, NextBreak(s, start), acc)

SplitLines(s) == SplitFrom(s, 1, <<>>)

-----------------------------------------------------------------------------
(* TextDecoder("utf-8"), decode(value, {stream: true})                      *)
(* The decoder keeps the bytes of an unfinished code point between calls.  *)

NewDecoder ==
    [cp |-> 0, seen |-> 0, needed |-> 0, lower |-> 128, upper |-> 191, bomSeen |-> FALSE]

ResetCodePoint(d) ==
    [d EXCEPT !.cp = 0, !.seen = 0, !.needed = 0, !.lower = 128, !.upper = 191]

\* a decoded scalar value as UTF-16 code units
CodeUnits(cp) ==
    IF cp >= 65536
    THEN <<55296 + ((cp - 65536) \div 1024), 56320 + ((cp - 65536) % 1024)>>
    ELSE <<cp>>

\* one decoded scalar value reaches the output, but for a leading U+FEFF
Emit(d, cp, again) ==
    [d |-> [d EXCEPT !.bomSeen = TRUE],
     out |-> IF ~d.bomSeen /\ cp = 65279 THEN <<>> ELSE CodeUnits(cp),
     again |-> again]

\* no output yet: the byte is part of an unfinished code point
Pending(d) == [d |-> d, out |-> <<>>, again |-> FALSE]

\* the UTF-8 decoder's handler for one byte: the new state, the code units it
\* gives, and whether the byte is to be handled once more
DecodeByte(d, b) ==
    IF d.needed = 0 THEN
        IF b <= 127 THEN Emit(d, b, FALSE)
        ELSE IF b >= 194 /\ b <= 223 THEN
            Pending([d EXCEPT !.needed = 1, !.cp = b % 32])
        ELSE IF b >= 224 /\ b <= 239 THEN
            Pending([d EXCEPT !.needed = 2, !.cp = b % 16,
                              !.lower = IF b = 224 THEN 160 ELSE 128,
                              !.upper = IF b = 237 THEN 159 ELSE 191])
        ELSE IF b >= 240 /\ b <= 244 THEN
            Pending([d EXCEPT !.needed = 3, !.cp = b % 8,
                              !.lower = IF b = 240 THEN 144 ELSE 128,
                              !.upper = IF b = 244 THEN 143 ELSE 191])
        ELSE Emit(d, 65533, FALSE)
    ELSE IF b < d.lower \/ b > d.upper THEN
        Emit(ResetCodePoint(d), 65533, TRUE)
    ELSE IF d.seen + 1 = d.needed THEN
        Emit(ResetCodePoint(d), d.cp * 64 + (b % 64), FALSE)
    ELSE Pending([d EXCEPT !.cp = d.cp * 64 + (b % 64), !.seen = d.seen + 1,
                           !.lower = 128, !.upper = 191])

\* a byte that ended an unfinished code point wrongly is handled again
Redo(first, second) ==
    [out |-> first.out \o second.out, d |-> second.d]

DecodeOne(first, b) ==
    IF first.again THEN Redo(first, DecodeByte(first.d, b))
    ELSE [d |-> first.d, out |-> first.out]

RECURSIVE DecodeRange(_, _, _, _)

\* the second half goes on from the state the first half ended in
DecodeRest(left, bytes, lo, hi) ==
    Redo(left, DecodeRange(left.d, bytes, lo, hi))

\* every byte of bytes[lo..hi] is below 128
IsAscii(bytes, lo, hi) == \A i \in lo..hi : bytes[i] <= 127

\* bytes[lo..hi], in order; with no code point unfinished, bytes below 128
\* are their own code units
DecodeRange(d, bytes, lo, hi) ==
    IF lo > hi THEN [d |-> d, out |-> <<>>]
    ELSE IF d.needed = 0 /\ IsAscii(bytes, lo, hi)
    THEN [d |-> [d EXCEPT !.bomSeen = TRUE], out |-> SubSeq(bytes, lo, hi)]
    ELSE IF lo = hi THEN DecodeOne(DecodeByte(d, bytes[lo]), bytes[lo])
    ELSE DecodeRest(DecodeRange(d, bytes, lo, (lo + hi) \div 2), bytes,
                    ((lo + hi) \div 2) + 1, hi)

\* decoder.decode(value, {stream: true}): the new decoder state and the text
Decode(d, bytes) == DecodeRange(d, bytes, 1, Len(bytes))

-----------------------------------------------------------------------------
(* JSON values and JSON.parse                                               *)
(* A value is [t, s, kids]: t its type; s the code units of a string or    *)
(* the text of a Number;       kids the members of an object (k the key)  *)
(* or the elements of an array.                                            *)

JUndefined == [t |-> "undefined", s |-> <<>>, kids |-> <<>>]
JNull == [t |-> "null", s |-> <<>>, kids |-> <<>>]
JTrue == [t |-> "true", s |-> <<>>, kids |-> <<>>]
JFalse == [t |-> "false", s |-> <<>>, kids |-> <<>>]
JString(s) == [t |-> "string", s |-> s, kids |-> <<>>]
JNumber(lexeme) == [t |-> "number", s |-> lexeme, kids |-> <<>>]
JArray(kids) == [t |-> "array", s |-> <<>>, kids |-> kids]
JObject(kids) == [t |-> "object", s |-> <<>>, kids |-> kids]

\* a parse result: ok, the value, and the index after it; a SyntaxError is ~ok
ParseFail == [ok |-> FALSE, v |-> JUndefined, i |-> 0]
ParseOk(v, i) == [ok |-> TRUE, v |-> v, i |-> i]

IsJsonSpace(c) == c \in {9, 10, 13, 32}
IsDigit(c) == c >= 48 /\ c <= 57
IsHexDigit(c) == IsDigit(c) \/ (c >= 65 /\ c <= 70) \/ (c >= 97 /\ c <= 102)
HexValue(c) == IF IsDigit(c) THEN c - 48 ELSE IF c >= 97 THEN c - 87 ELSE c - 55

RECURSIVE SkipSpace(_, _)
SkipSpace(s, i) ==
    IF i <= Len(s) /\ IsJsonSpace(s[i]) THEN SkipSpace(s, i + 1) ELSE i

RECURSIVE SkipDigits(_, _)
SkipDigits(s, i) ==
    IF i <= Len(s) /\ IsDigit(s[i]) THEN SkipDigits(s, i + 1) ELSE i

HasAt(s, i, lit) == i + Len(lit) - 1 <= Len(s) /\ SubSeq(s, i, i + Len(lit) - 1) = lit

\* the character a two-character escape stands for; 0 when it is none
EscapeChar(e) ==
    CASE e = 34 -> 34 [] e = 92 -> 92 [] e = 47 -> 47 [] e = 98 -> 8
      [] e = 102 -> 12 [] e = 110 -> 10 [] e = 114 -> 13 [] e = 116 -> 9
      [] OTHER -> 0

\* a string body, from the character after the opening quote
RECURSIVE ParseStringFrom(_, _, _)
ParseStringFrom(s, i, acc) ==
    IF i > Len(s) THEN ParseFail
    ELSE IF s[i] = 34 THEN ParseOk(JString(acc), i + 1)
    ELSE IF s[i] = 92 THEN
        IF i + 1 > Len(s) THEN ParseFail
        ELSE IF EscapeChar(s[i + 1]) # 0
            THEN ParseStringFrom(s, i + 2, Append(acc, EscapeChar(s[i + 1])))
        ELSE IF s[i + 1] = 117 /\ i + 5 <= Len(s)
                /\ \A k \in 2..5 : IsHexDigit(s[i + k])
            THEN ParseStringFrom(s, i + 6,
                    Append(acc, HexValue(s[i + 2]) * 4096 + HexValue(s[i + 3]) * 256
                                + HexValue(s[i + 4]) * 16 + HexValue(s[i + 5])))
        ELSE ParseFail
    ELSE IF s[i] < 32 THEN ParseFail
    ELSE ParseStringFrom(s, i + 1, Append(acc, s[i]))

\* the decimal digits of a non-negative integer (template literal ${n})
RECURSIVE Decimal(_)
Decimal(n) == IF n < 10 THEN <<48 + n>> ELSE Decimal(n \div 10) \o <<48 + (n % 10)>>

\* ---- Number values ----
\* JSON.parse and parseInt turn the source text of a number into a Number: the
\* double nearest to it, a tie going to the even mantissa.  A Number is kept
\* as the text Number::toString gives for it, the shortest decimal that names
\* the double: "5", "0.1", "1e+21", "Infinity"; negative zero is kept as "-0".
\* (The language lets an implementation ignore the digits after the 20th; V8
\* rounds the whole text, and so does this.)
\* A natural number of any size is the sequence of its digits 0..9, the most
\* significant first, <<>> for zero.

\* digit characters as the numbers 0..9
DigitValues(s) == [i \in 1..Len(s) |-> s[i] - 48]

\* the places of the digits that are not 0
NonZero(ds) == {i \in 1..Len(ds) : ds[i] # 0}

First(places) == CHOOSE i \in places : \A j \in places : i <= j
Last(places) == CHOOSE i \in places : \A j \in places : j <= i

LeadingZeros(ds) == IF NonZero(ds) = {} THEN Len(ds) ELSE First(NonZero(ds)) - 1

DropTrailingZeros(ds) ==
    IF NonZero(ds) = {} THEN <<>> ELSE SubSeq(ds, 1, Last(NonZero(ds)))

\* the value of a digit string, but no more than 100000
RECURSIVE Saturated(_, _, _)
Saturated(ds, i, acc) ==
    IF i > Len(ds) THEN acc
    ELSE IF acc * 10 + ds[i] > 100000 THEN 100000
    ELSE Saturated(ds, i + 1, acc * 10 + ds[i])

\* the digits of a natural number
RECURSIVE Digits(_)
Digits(n) == IF n = 0 THEN <<>> ELSE Digits(n \div 10) \o <<n % 10>>

Trimmed(a) == SubSeq(a, LeadingZeros(a) + 1, Len(a))

\* the places where a and b, of one length, differ
Differing(a, b) == {i \in 1..Len(a) : a[i] # b[i]}

\* a < b
Less(a, b) ==
    IF Len(a) # Len(b) THEN Len(a) < Len(b)
    ELSE Differing(a, b) # {} /\ a[First(Differing(a, b))] < b[First(Differing(a, b))]

\* the digit of 10^i
FromEnd(a, i) == IF i < Len(a) THEN a[Len(a) - i] ELSE 0

\* the columns lo..hi of a sum written column by column, each column brought
\* to one digit and the rest carried to the column before it (a borrow is a
\* carry of -1); the columns are done half by half, from the right
RECURSIVE Carried(_, _, _, _)
CarriedLeft(left, right) == [ds |-> left.ds \o right.ds, carry |-> left.carry]
CarriedRight(cols, lo, mid, right) ==
    IF right.ds = <<>> THEN Carried(cols, lo, mid, right.carry)
    ELSE CarriedLeft(Carried(cols, lo, mid, right.carry), right)
Carried(cols, lo, hi, carry) ==
    IF lo > hi THEN [ds |-> <<>>, carry |-> carry]
    ELSE IF lo = hi
    THEN [ds |-> <<(cols[lo] + carry) % 10>>, carry |-> (cols[lo] + carry) \div 10]
    ELSE CarriedRight(cols, lo, (lo + hi) \div 2,
                      Carried(cols, (lo + hi) \div 2 + 1, hi, carry))

\* the number the columns stand for
Summed(t) == Trimmed(Digits(t.carry) \o t.ds)
Sum(cols) == Summed(Carried(cols, 1, Len(cols), 0))

Longer(a, b) == IF Len(a) > Len(b) THEN Len(a) ELSE Len(b)

\* a + b
Plus(a, b) ==
    Sum([i \in 1..Longer(a, b) |->
            FromEnd(a, Longer(a, b) - i) + FromEnd(b, Longer(a, b) - i)])

\* a - b, for a >= b
Minus(a, b) ==
    Sum([i \in 1..Len(a) |-> a[i] - FromEnd(b, Len(a) - i)])

\* a * k, for a machine integer 0 < k <= 2^26
Times(a, k) == Sum([i \in 1..Len(a) |-> a[i] * k])

\* a * 2^e
RECURSIVE TimesPow2(_, _)
TimesPow2(a, e) ==
    IF a = <<>> THEN <<>>
    ELSE IF e <= 26 THEN Times(a, 2^e)
    ELSE TimesPow2(TimesPow2(a, e \div 2), e - e \div 2)

\* a * 10^e
TimesPow10(a, e) == IF a = <<>> THEN <<>> ELSE a \o [i \in 1..e |-> 0]

\* how often b is in r, counted from d, and what is left of r
RECURSIVE Taken(_, _, _)
Taken(r, b, d) ==
    IF Less(r, b) THEN [d |-> d, r |-> r] ELSE Taken(Minus(r, b), b, d + 1)

RECURSIVE DivideFrom(_, _, _, _)
DivideStep(b, j, q, t) ==
    IF q = <<>> /\ t.d = 0 THEN DivideFrom(t.r, b, j - 1, <<>>)
    ELSE DivideFrom(t.r, b, j - 1, Append(q, t.d))

\* long division, from the digit of 10^j on
DivideFrom(r, b, j, q) ==
    IF j < 0 THEN [q |-> q, r |-> r]
    ELSE DivideStep(b, j, q, Taken(r, TimesPow10(b, j), 0))

\* the quotient q and the remainder r of a by b, for a < 2^53 * b
Divide(a, b) == DivideFrom(a, b, 16, <<>>)

\* the parts of the source text "-"? int frac? exp?: the sign, the digits of
\* int and frac, and the exponent
NumberParts(s) ==
    LET a == IF s # <<>> /\ s[1] = 45 THEN 2 ELSE 1
        b == SkipDigits(s, a)
        c == IF b <= Len(s) /\ s[b] = 46 THEN SkipDigits(s, b + 1) ELSE b
        signed == c + 1 <= Len(s) /\ s[c + 1] \in {43, 45}
        e == IF c > Len(s) THEN 0
             ELSE Saturated(DigitValues(SubSeq(s, IF signed THEN c + 2 ELSE c + 1, Len(s))),
                            1, 0)
    IN  [negative |-> a = 2,
         int |-> DigitValues(SubSeq(s, a, b - 1)),
         frac |-> IF c > b THEN DigitValues(SubSeq(s, b + 1, c - 1)) ELSE <<>>,
         exp |-> IF signed /\ s[c + 1] = 45 THEN 0 - e ELSE e]

\* the number as 0.d1...dk * 10^n with d1 # 0 and dk # 0; k = 0 for zero
Scientific(p) ==
    LET all == p.int \o p.frac
        z == LeadingZeros(all)
    IN  [negative |-> p.negative,
         digits |-> DropTrailingZeros(SubSeq(all, z + 1, Len(all))),
         n |-> Len(p.int) - z + p.exp]

\* 2^52 and 2^53: the mantissa m of a normal double m * 2^e is between them
TwoTo52 == <<4, 5, 0, 3, 5, 9, 9, 6, 2, 7, 3, 7, 0, 4, 9, 6>>
TwoTo53 == <<9, 0, 0, 7, 1, 9, 9, 2, 5, 4, 7, 4, 0, 9, 9, 2>>

\* the number 0.digits * 10^n as the fraction a / b
Ratio(n) ==
    [a |-> IF n.n >= Len(n.digits) THEN TimesPow10(n.digits, n.n - Len(n.digits))
           ELSE n.digits,
     b |-> IF n.n >= Len(n.digits) THEN <<1>>
           ELSE TimesPow10(<<1>>, Len(n.digits) - n.n)]

\* an estimate from below of the exponent e of the double m * 2^e nearest to
\* a number of [10^(n-1), 10^n); -1074 is the exponent of the denormals
ExponentBelow(n) ==
    IF ((n - 1) * 3321928) \div 1000000 - 53 < 0 - 1074 THEN 0 - 1074
    ELSE ((n - 1) * 3321928) \div 1000000 - 53

\* a / b as (a / b) / 2^e * 2^e
Scaled(v, e) ==
    [a |-> IF e < 0 THEN TimesPow2(v.a, 0 - e) ELSE v.a,
     b |-> IF e > 0 THEN TimesPow2(v.b, e) ELSE v.b,
     e |-> e]

\* the exponent with 2^52 <= a / b < 2^53, or -1074 with a / b < 2^52
RECURSIVE Fit(_)
Fit(v) ==
    IF ~Less(v.a, TimesPow2(v.b, 53))
    THEN Fit([v EXCEPT !.b = Times(@, 2), !.e = @ + 1])
    ELSE IF v.e > 0 - 1074 /\ Less(v.a, TimesPow2(v.b, 52))
    THEN Fit([v EXCEPT !.a = Times(@, 2), !.e = @ - 1])
    ELSE v

IsOdd(a) == a # <<>> /\ a[Len(a)] % 2 = 1

\* a / b = d.q + d.r / b rounds up: more than half is left, or half with d.q odd
RoundsUp(v, d) ==
    \/ Less(v.b, Times(d.r, 2))
    \/ Times(d.r, 2) = v.b /\ IsOdd(d.q)

\* the mantissa m and the exponent e of the rounded quotient
Rounded(v, d) ==
    IF ~RoundsUp(v, d) THEN [m |-> d.q, e |-> v.e]
    ELSE IF Plus(d.q, <<1>>) = TwoTo53 THEN [m |-> TwoTo52, e |-> v.e + 1]
    ELSE [m |-> Plus(d.q, <<1>>), e |-> v.e]

Quotient(v) == Rounded(v, Divide(v.a, v.b))

\* the double m * 2^e nearest to 0.digits * 10^n; m = <<>> for zero, e > 971
\* for what is beyond the largest double
Nearest(n) == Quotient(Fit(Scaled(Ratio(n), ExponentBelow(n.n))))

\* the double x = m * 2^e and the numbers that round to it: x = r / s, and the
\* interval from (r - mm) / s to (r + mp) / s, its ends included for an even m;
\* below a power of two the doubles are twice as dense
Interval(x, f) ==
    IF x.e >= 0
    THEN [r |-> TimesPow2(x.m, x.e + f), s |-> Digits(2^f),
          mp |-> TimesPow2(<<1>>, x.e + f - 1), mm |-> TimesPow2(<<1>>, x.e),
          even |-> ~IsOdd(x.m), k |-> 0, d |-> 0]
    ELSE [r |-> TimesPow2(x.m, f), s |-> TimesPow2(<<1>>, f - x.e),
          mp |-> Digits(f), mm |-> <<1>>,
          even |-> ~IsOdd(x.m), k |-> 0, d |-> 0]

\* an estimate of the decimal exponent of m * 2^e
DecimalExponent(x) ==
    Len(x.m) - 1 + (IF x.e >= 0 THEN (x.e * 30102) \div 100000
                    ELSE 0 - ((0 - x.e) * 30103) \div 100000 - 1)

\* the interval of x / 10^k
Powered(g, k) ==
    IF k >= 0 THEN [g EXCEPT !.s = TimesPow10(@, k), !.k = k]
    ELSE [g EXCEPT !.r = TimesPow10(@, 0 - k), !.mp = TimesPow10(@, 0 - k),
                   !.mm = TimesPow10(@, 0 - k), !.k = k]

\* the upper end of the interval reaches 1
HighReaches(g) ==
    IF g.even THEN ~Less(Plus(g.r, g.mp), g.s) ELSE Less(g.s, Plus(g.r, g.mp))

\* the upper end of the interval does not reach 1/10
HighBelowTenth(g) ==
    IF g.even THEN Less(Times(Plus(g.r, g.mp), 10), g.s)
    ELSE ~Less(g.s, Times(Plus(g.r, g.mp), 10))

\* the lower end of the interval reaches 0
LowReaches(g) ==
    IF g.even THEN ~Less(g.mm, g.r) ELSE Less(g.r, g.mm)

\* the least k for which the interval of x / 10^k is below 1
RECURSIVE Scale(_)
Scale(g) ==
    IF HighReaches(g) THEN Scale([g EXCEPT !.s = Times(@, 10), !.k = @ + 1])
    ELSE IF HighBelowTenth(g)
    THEN Scale([g EXCEPT !.r = Times(@, 10), !.mp = Times(@, 10),
                         !.mm = Times(@, 10), !.k = @ - 1])
    ELSE g

\* the next digit d of x and what is left of x, ten times over
Moved(g, t) ==
    [g EXCEPT !.r = t.r, !.d = t.d, !.mp = Times(@, 10), !.mm = Times(@, 10)]

NextDigit(g) == Moved(g, Taken(Times(g.r, 10), g.s, 0))

\* of the digits d and d + 1, both in the interval, the one nearer to x, the
\* even one when x is half way
NearerDigit(g) ==
    IF Less(Times(g.r, 2), g.s) THEN g.d
    ELSE IF Less(g.s, Times(g.r, 2)) THEN g.d + 1
    ELSE IF g.d % 2 = 0 THEN g.d
    ELSE g.d + 1

\* the digits of the shortest decimal in the interval, the nearest to x of them
RECURSIVE Generate(_, _)
Generated(g, ds) ==
    IF LowReaches(g) THEN Append(ds, IF HighReaches(g) THEN NearerDigit(g) ELSE g.d)
    ELSE IF HighReaches(g) THEN Append(ds, g.d + 1)
    ELSE Generate(g, Append(ds, g.d))

Generate(g, ds) == Generated(NextDigit(g), ds)

\* the shortest decimal 0.digits * 10^n that rounds to the double x
Shortest(x) ==
    Scale(Powered(Interval(x, IF x.m = TwoTo52 /\ x.e > 0 - 1074 THEN 2 ELSE 1),
                  DecimalExponent(x)))

DigitChars(ds) == [i \in 1..Len(ds) |-> ds[i] + 48]
Zeros(count) == [i \in 1..count |-> 48]

\* Number::toString for the finite, non-zero 0.digits * 10^n
FiniteToString(ds, n) ==
    LET k == Len(ds)
        e == IF n - 1 < 0 THEN 1 - n ELSE n - 1
    IN  IF k <= n /\ n <= 21 THEN DigitChars(ds) \o Zeros(n - k)
        ELSE IF 0 < n /\ n <= 21
            THEN DigitChars(SubSeq(ds, 1, n)) \o <<46>> \o DigitChars(SubSeq(ds, n + 1, k))
        ELSE IF 0 - 6 < n /\ n <= 0
            THEN <<48, 46>> \o Zeros(0 - n) \o DigitChars(ds)
        ELSE DigitChars(<<ds[1]>>)
             \o (IF k > 1 THEN <<46>> \o DigitChars(SubSeq(ds, 2, k)) ELSE <<>>)
             \o <<101, IF n - 1 < 0 THEN 45 ELSE 43>>
             \o Decimal(e)

ShortestText(g) == FiniteToString(Generate(g, <<>>), g.k)

\* Number::toString of the double m * 2^e
DoubleText(x) ==
    IF x.m = <<>> THEN <<48>>
    ELSE IF x.e > 971 THEN <<73, 110, 102, 105, 110, 105, 116, 121>>
    ELSE ShortestText(Shortest(x))

\* a decimal of up to 15 digits among the normal doubles is the shortest one
\* that rounds to its double
IsShortest(n) == Len(n.digits) <= 15 /\ n.n >= 0 - 306 /\ n.n <= 308

\* the text of the Number nearest to 0.digits * 10^n: less than 10^-324 is
\* nearest to zero, 10^309 and more is beyond the largest double
Magnitude(n) ==
    IF n.digits = <<>> \/ n.n < 0 - 323 THEN <<48>>
    ELSE IF n.n > 309 THEN <<73, 110, 102, 105, 110, 105, 116, 121>>
    ELSE IF IsShortest(n) THEN FiniteToString(n.digits, n.n)
    ELSE DoubleText(Nearest(n))

NumberText(n) == (IF n.negative THEN <<45>> ELSE <<>>) \o Magnitude(n)

\* the Number a source text of JSON (or a run of digits) stands for
NumberValue(lexeme) == JNumber(NumberText(Scientific(NumberParts(lexeme))))

\* a number: "-"? int frac? exp?  Each step gets the index reached so far and
\* ends in the index after the number, or in 0 when there is no number.
NumExpEnd(e, f) == IF f = e THEN 0 ELSE f

NumExp(s, c) ==
    IF c <= Len(s) /\ s[c] \in {69, 101}
    THEN (IF c + 1 <= Len(s) /\ s[c + 1] \in {43, 45}
          THEN NumExpEnd(c + 2, SkipDigits(s, c + 2))
          ELSE NumExpEnd(c + 1, SkipDigits(s, c + 1)))
    ELSE c

NumFracEnd(s, b, f) == IF f = b THEN 0 ELSE NumExp(s, f)

NumFrac(s, b) ==
    IF b <= Len(s) /\ s[b] = 46 THEN NumFracEnd(s, b + 1, SkipDigits(s, b + 1))
    ELSE NumExp(s, b)

NumInt(s, a) ==
    IF a > Len(s) \/ ~IsDigit(s[a]) THEN 0
    ELSE IF s[a] = 48 THEN NumFrac(s, a + 1)
    ELSE NumFrac(s, SkipDigits(s, a))

NumberEnd(s, i) == IF s[i] = 45 THEN NumInt(s, i + 1) ELSE NumInt(s, i)

NumberAt(s, i, n) ==
    IF n = 0 THEN ParseFail ELSE ParseOk(NumberValue(SubSeq(s, i, n - 1)), n)

RECURSIVE ParseValue(_, _)
RECURSIVE ParseElements(_, _, _)
RECURSIVE ParseMembers(_, _, _)

\* after an element: "," and the next one, or "]"
ElementSep(s, acc, j) ==
    IF j > Len(s) THEN ParseFail
    ELSE IF s[j] = 44 THEN ParseElements(s, j + 1, acc)
    ELSE IF s[j] = 93 THEN ParseOk(JArray(acc), j + 1)
    ELSE ParseFail

ElementNext(s, acc, r) ==
    IF ~r.ok THEN ParseFail
    ELSE ElementSep(s, Append(acc, [k |-> <<>>, v |-> r.v]), SkipSpace(s, r.i))

\* value ("," value)* "]"
ParseElements(s, i, acc) == ElementNext(s, acc, ParseValue(s, i))

\* after a member: "," and the next one, or "}"
MemberSep(s, acc, j) ==
    IF j > Len(s) THEN ParseFail
    ELSE IF s[j] = 44 THEN ParseMembers(s, j + 1, acc)
    ELSE IF s[j] = 125 THEN ParseOk(JObject(acc), j + 1)
    ELSE ParseFail

MemberNext(s, acc, key, r) ==
    IF ~r.ok THEN ParseFail
    ELSE MemberSep(s, Append(acc, [k |-> key, v |-> r.v]), SkipSpace(s, r.i))

MemberValue(s, acc, key, c) ==
    IF c <= Len(s) /\ s[c] = 58 THEN MemberNext(s, acc, key, ParseValue(s, c + 1))
    ELSE ParseFail

MemberColon(s, acc, key) ==
    IF ~key.ok THEN ParseFail ELSE MemberValue(s, acc, key.v.s, SkipSpace(s, key.i))

MemberKey(s, acc, i) ==
    IF i <= Len(s) /\ s[i] = 34 THEN MemberColon(s, acc, ParseStringFrom(s, i + 1, <<>>))
    ELSE ParseFail

\* string ":" value ("," string ":" value)* "}"
ParseMembers(s, i, acc) == MemberKey(s, acc, SkipSpace(s, i))

ObjectAt(s, j) ==
    IF j <= Len(s) /\ s[j] = 125 THEN ParseOk(JObject(<<>>), j + 1)
    ELSE ParseMembers(s, j, <<>>)

ArrayAt(s, j) ==
    IF j <= Len(s) /\ s[j] = 93 THEN ParseOk(JArray(<<>>), j + 1)
    ELSE ParseElements(s, j, <<>>)

\* the value that starts at i (the white space before it skipped)
ValueAt(s, i) ==
    IF i > Len(s) THEN ParseFail
    ELSE IF s[i] = 123 THEN ObjectAt(s, SkipSpace(s, i + 1))
    ELSE IF s[i] = 91 THEN ArrayAt(s, SkipSpace(s, i + 1))
    ELSE IF s[i] = 34 THEN ParseStringFrom(s, i + 1, <<>>)
    ELSE IF HasAt(s, i, <<116, 114, 117, 101>>) THEN ParseOk(JTrue, i + 4)
    ELSE IF HasAt(s, i, <<102, 97, 108, 115, 101>>) THEN ParseOk(JFalse, i + 5)
    ELSE IF HasAt(s, i, <<110, 117, 108, 108>>) THEN ParseOk(JNull, i + 4)
    ELSE NumberAt(s, i, NumberEnd(s, i))

ParseValue(s, i) == ValueAt(s, SkipSpace(s, i))

\* the text must end after the value
ParseEnd(s, r) ==
    IF r.ok /\ SkipSpace(s, r.i) = Len(s) + 1 THEN r ELSE ParseFail

\* JSON.parse(text): ~ok stands for the SyntaxError it throws
JSONParse(s) == ParseEnd(s, ParseValue(s, 1))

\* the last member of an object with the key (a later duplicate key wins)
RECURSIVE LookupKey(_, _, _)
LookupKey(kids, key, i) ==
    IF i = 0 THEN JUndefined
    ELSE IF kids[i].k = key THEN kids[i].v
    ELSE LookupKey(kids, key, i - 1)

\* v?.[key] for a property name that no prototype defines; index = the key as
\* an array index, or -1
GetOptional(v, key, index) ==
    CASE v.t = "object" -> LookupKey(v.kids, key, Len(v.kids))
      [] v.t = "array" ->
            IF index >= 0 /\ index < Len(v.kids) THEN v.kids[index + 1].v ELSE JUndefined
      [] v.t = "string" ->
            IF index >= 0 /\ index < Len(v.s) THEN JString(<<v.s[index + 1]>>) ELSE JUndefined
      [] OTHER -> JUndefined

\* ToBoolean
Truthy(v) ==
    CASE v.t \in {"undefined", "null", "false"} -> FALSE
      [] v.t = "string" -> v.s # <<>>
      [] v.t = "number" -> v.s \notin {<<48>>, <<45, 48>>, <<78, 97, 78>>}
      [] OTHER -> TRUE

KeyToString == <<116, 111, 83, 116, 114, 105, 110, 103>>

\* the object has a member of its own with the key
HasKey(kids, key) == \E i \in 1..Len(kids) : kids[i].k = key

\* ToPrimitive(v, string) gives a value.  A member of an object made by
\* JSON.parse is never a function: with a member "toString" of its own the
\* object has no callable toString, and valueOf (its own member, or
\* Object.prototype.valueOf, which gives the object) gives no primitive, so
\* the conversion throws a TypeError.  The join of an array converts the
\* elements that are not null.
RECURSIVE Convertible(_)
Convertible(v) ==
    CASE v.t = "object" -> ~HasKey(v.kids, KeyToString)
      [] v.t = "array" ->
            \A i \in 1..Len(v.kids) :
                v.kids[i].v.t \in {"undefined", "null"} \/ Convertible(v.kids[i].v)
      [] OTHER -> TRUE

RECURSIVE StringOf(_)

\* Array.prototype.join(","): null and undefined elements give no text
RECURSIVE JoinFrom(_, _)
JoinFrom(kids, i) ==
    IF i > Len(kids) THEN <<>>
    ELSE (IF i > 1 THEN <<44>> ELSE <<>>)
         \o (IF kids[i].v.t \in {"undefined", "null"} THEN <<>> ELSE StringOf(kids[i].v))
         \o JoinFrom(kids, i + 1)

\* ToString of a convertible value: the code units of String(v)
StringOf(v) ==
    CASE v.t = "string" -> v.s
      [] v.t = "number" -> (IF v.s = <<45, 48>> THEN <<48>> ELSE v.s)
      [] v.t = "array" -> JoinFrom(v.kids, 1)
      [] v.t = "object" ->
            <<91, 111, 98, 106, 101, 99, 116, 32, 79, 98, 106, 101, 99, 116, 93>>
      [] v.t = "undefined" -> <<117, 110, 100, 101, 102, 105, 110, 101, 100>>
      [] v.t = "null" -> <<110, 117, 108, 108>>
      [] v.t = "true" -> <<116, 114, 117, 101>>
      [] v.t = "false" -> <<102, 97, 108, 115, 101>>


-----------------------------------------------------------------------------
(* parseSSEStream: one invocation of the async generator                    *)
(*                                                                         *)
(* pc is where the generator is suspended:                                 *)
(*   "idle"         no invocation                                          *)
(*   "start"        created, body not yet run                              *)
(*   "read"         at `await reader.read()`                               *)
(*   "yieldDone"    at the yield of the terminal chunk for [DONE]          *)
(*   "yieldContent" at the yield of a content chunk                        *)
(*   "yieldFinish"  at the yield of the terminal chunk for finish_reason   *)
(*   "yieldTail"    at the yield of the terminal chunk after the loop      *)
(*   "done"         completed (returned or threw)                          *)
(* The consumer drives it with next(), return() (for await ... break) and   *)
(* throw(err).                                                             *)

Streams == {1, 2}

YieldPoints == {"yieldDone", "yieldContent", "yieldFinish", "yieldTail"}

\* { content: "", done: true }
TerminalChunk == [content |-> JString(<<>>), done |-> TRUE]

\* { content: delta.content, done: false }
ContentChunk(v) == [content |-> v, done |-> FALSE]

\* the generator object before its body has run; src is the byte content of
\* response.body (hasBody = response.body is not null).  Besides the locals of
\* the function (reader: acquired/released, decoder: dec, buffer, lines, parsed)
\* the record keeps what an observer sees: out, the chunks handed to the
\* consumer; events, the order of acquire/chunk/readerror/release/return/throw;
\* outcome, readError, thrown; abandoned, the consumer called return();
\* raised, the consumer called throw();
\* midCode, a read ended inside a UTF-8 sequence; mark, the number of chunks
\* handed out before the line whose JSON is in parsed; broken, every read of
\* the body fails.
NewStream(hasBody, src) ==
    [pc |-> "start", hasBody |-> hasBody, src |-> src, pos |-> 0,
     dec |-> NewDecoder, buffer |-> <<>>, lines |-> <<>>, parsed |-> JUndefined,
     out |-> <<>>, events |-> <<>>, acquired |-> 0, released |-> 0,
     outcome |-> "pending", readError |-> "none", thrown |-> "none",
     abandoned |-> FALSE, raised |-> FALSE, midCode |-> FALSE, mark |-> 0,
     broken |-> FALSE]

IdleStream == [NewStream(FALSE, <<>>) EXCEPT !.pc = "idle"]

\* yield chunk: the chunk is handed to the consumer, the generator suspends
Yield(g, chunk, at) ==
    [g EXCEPT !.out = Append(@, chunk), !.events = Append(@, "chunk"), !.pc = at]

\* finally { reader.releaseLock() }
Finally(g) ==
    [g EXCEPT !.released = @ + 1, !.events = Append(@, "release")]

\* the generator returns: leaves the try block and completes
Complete(g) ==
    [Finally(g) EXCEPT !.pc = "done", !.outcome = "returned",
                       !.events = Append(@, "return")]

\* parsed?.choices?.[0]
FirstChoice(parsed) ==
    GetOptional(GetOptional(parsed, <<99, 104, 111, 105, 99, 101, 115>>, -1), <<48>>, 0)

\* parsed?.choices?.[0]?.delta, then delta?.content
DeltaContent(parsed) ==
    GetOptional(GetOptional(FirstChoice(parsed), <<100, 101, 108, 116, 97>>, -1),
                <<99, 111, 110, 116, 101, 110, 116>>, -1)

\* parsed?.choices?.[0]?.finish_reason
FinishReason(parsed) ==
    GetOptional(FirstChoice(parsed),
                <<102, 105, 110, 105, 115, 104, 95, 114, 101, 97, 115, 111, 110>>, -1)

RECURSIVE ProcessLines(_)

\* (variant) finish_reason is not looked at
AfterContentNoFinish(g) == ProcessLines(g)

\* the finish_reason check of the line whose JSON is g.parsed
AfterContent(g) ==
    IF Truthy(FinishReason(g.parsed))
    THEN Yield(g, TerminalChunk, "yieldFinish")
    ELSE ProcessLines(g)

\* if (delta?.content) yield { content: delta.content, done: false }
EmitContent(g, content) ==
    IF Truthy(content)
    THEN Yield(g, ContentChunk(content), "yieldContent")
    ELSE AfterContent(g)

\* (variant) a line that is not JSON ends the stream
ProcessParsedAbort(g, r) ==
    IF ~r.ok THEN Complete(g)
    ELSE EmitContent([g EXCEPT !.parsed = r.v, !.mark = Len(g.out)], DeltaContent(r.v))

\* try { parsed = JSON.parse(data); ... } catch { }
ProcessParsed(g, r) ==
    IF ~r.ok THEN ProcessLines(g)
    ELSE EmitContent([g EXCEPT !.parsed = r.v, !.mark = Len(g.out)], DeltaContent(r.v))

\* data = trimmed.slice(6)
ProcessData(g, data) ==
    IF data = DoneSentinel THEN Yield(g, TerminalChunk, "yieldDone")
    ELSE ProcessParsed(g, JSONParse(data))

\* one line of the for loop; g.lines are the lines after it
ProcessLine(g, trimmed) ==
    IF trimmed = <<>> THEN ProcessLines(g)
    ELSE IF ~StartsWith(trimmed, DataPrefix) THEN ProcessLines(g)
    ELSE ProcessData(g, Slice(trimmed, PrefixLen))

\* the for loop over the complete lines, from the next line on, up to the next
\* suspension; with no line left the loop is back at `await reader.read()`
ProcessLines(g) ==
    IF g.lines = <<>> THEN [g EXCEPT !.pc = "read"]
    ELSE ProcessLine([g EXCEPT !.lines = Tail(@)], Trim(Head(g.lines)))

\* (variant) the incomplete last line is dropped instead of kept
TakeLinesDropTail(g, parts) ==
    [g EXCEPT !.buffer = <<>>, !.lines = SubSeq(parts, 1, Len(parts) - 1)]

\* lines = buffer.split("\n"); buffer = lines.pop()
TakeLines(g, parts) ==
    [g EXCEPT !.buffer = parts[Len(parts)], !.lines = SubSeq(parts, 1, Len(parts) - 1)]

\* (variant) buffer is one variable of the module, shared by the invocations:
\* a read appends to what another invocation has left in it
BufferedShared(g, r) ==
    LET others == {s \in Streams : gen[s].pc = "read" /\ gen[s].buffer # g.buffer}
    IN  TakeLines([g EXCEPT !.dec = r.d],
                  SplitLines((IF others = {} THEN g.buffer
                              ELSE gen[CHOOSE s \in others : TRUE].buffer) \o r.out))

\* buffer += decoder.decode(value, {stream: true})
Buffered(g, r) ==
    TakeLines([g EXCEPT !.dec = r.d], SplitLines(g.buffer \o r.out))

\* reader.read() settled with {done: false, value: bytes}
OnRead(g, bytes) ==
    ProcessLines(Buffered([g EXCEPT !.pos = @ + Len(bytes)], Decode(g.dec, bytes)))

\* (variant) nothing is done with the rest of the buffer
OnEndNoTail(g) == Complete(g)

\* (variant) the loop does not break at end-of-data and reads again
OnEndContinue(g) == [g EXCEPT !.pc = "read"]

\* (variant) the rest of the buffer is processed as a last line
OnEndFlush(g) == ProcessLines([g EXCEPT !.lines = <<g.buffer>>, !.buffer = <<>>])

\* reader.read() settled with {done: true}: the loop breaks, the rest of the
\* buffer is looked at
OnEnd(g) ==
    IF StartsWith(Trim(g.buffer), DataPrefix)
       /\ Slice(Trim(g.buffer), PrefixLen) = DoneSentinel
    THEN Yield(g, TerminalChunk, "yieldTail")
    ELSE Complete(g)

\* (variant) the rejection is caught like a bad line and the loop goes on
OnReadErrorSwallowed(g, e) ==
    [g EXCEPT !.readError = e, !.events = Append(@, "readerror"), !.pc = "read"]

\* reader.read() rejected with e
OnReadError(g, e) ==
    [Finally([g EXCEPT !.readError = e, !.events = Append(@, "readerror")])
        EXCEPT !.pc = "done", !.outcome = "threw", !.thrown = e,
               !.events = Append(@, "throw")]

\* (variant) the reader is taken without looking at response.body
BeginNoCheck(g) ==
    [g EXCEPT !.pc = "read", !.acquired = @ + 1, !.events = Append(@, "acquire")]

\* the body up to the first await: no body, or getReader()
Begin(g) ==
    IF ~g.hasBody
    THEN [g EXCEPT !.pc = "done", !.outcome = "returned", !.events = Append(@, "return")]
    ELSE [g EXCEPT !.pc = "read", !.acquired = @ + 1, !.events = Append(@, "acquire")]

\* the consumer's next() on a suspended generator
Resume(g) ==
    CASE g.pc = "start" -> Begin(g)
      [] g.pc \in {"yieldDone", "yieldFinish"} -> Complete(g)
      [] g.pc = "yieldContent" -> AfterContent(g)
      [] g.pc = "yieldTail" -> Complete(g)

\* (variant) return() without the finally block
AbandonNoFinally(g) ==
    [g EXCEPT !.pc = "done", !.outcome = "returned", !.abandoned = TRUE,
              !.events = Append(@, "return")]

\* the consumer's return() on a suspended generator
Abandon(g) ==
    IF g.pc = "start"
    THEN [g EXCEPT !.pc = "done", !.outcome = "returned", !.abandoned = TRUE,
                   !.events = Append(@, "return")]
    ELSE [Complete(g) EXCEPT !.abandoned = TRUE]

\* the error the consumer passes to throw()
ConsumerError == "ConsumerError"

\* the generator ends with the consumer's error
EndThrown(g) ==
    [g EXCEPT !.pc = "done", !.outcome = "threw", !.thrown = ConsumerError,
              !.events = Append(@, "throw")]

\* the consumer's throw(err) on a suspended generator: err is thrown at the
\* yield.  The yields of the content chunk and of the terminal chunk for
\* finish_reason are inside try { } catch { }: the error is swallowed there
\* and the for loop goes on with the next line.  At the other yields the
\* error leaves through finally; before the body has run it ends the
\* generator at once.
ThrowInto(g) ==
    IF g.pc = "start" THEN EndThrown([g EXCEPT !.raised = TRUE])
    ELSE IF g.pc \in {"yieldContent", "yieldFinish"}
    THEN ProcessLines([g EXCEPT !.raised = TRUE])
    ELSE EndThrown(Finally([g EXCEPT !.raised = TRUE]))


-----------------------------------------------------------------------------
(* The byte streams the decoder is run on                                   *)

\* a content frame; its content is U+20AC, three bytes in UTF-8:
\*   data: {"choices":[{"delta":{"content":"€"}}]}
ContentLine ==
    <<100, 97, 116, 97, 58, 32, 123, 34, 99, 104, 111, 105, 99, 101, 115,
      34, 58, 91, 123, 34, 100, 101, 108, 116, 97, 34, 58, 123, 34, 99,
      111, 110, 116, 101, 110, 116, 34, 58, 34, 226, 130, 172, 34, 125,
      125, 93, 125>>

\* content and finish_reason in one frame:
\*   data: {"choices":[{"delta":{"content":"b"},"finish_reason":"stop"}]}
BothLine ==
    <<100, 97, 116, 97, 58, 32, 123, 34, 99, 104, 111, 105, 99, 101, 115,
      34, 58, 91, 123, 34, 100, 101, 108, 116, 97, 34, 58, 123, 34, 99,
      111, 110, 116, 101, 110, 116, 34, 58, 34, 98, 34, 125, 44, 34, 102,
      105, 110, 105, 115, 104, 95, 114, 101, 97, 115, 111, 110, 34, 58, 34,
      115, 116, 111, 112, 34, 125, 93, 125>>

\* finish_reason without content:
\*   data: {"choices":[{"delta":{},"finish_reason":"stop"}]}
FinishLine ==
    <<100, 97, 116, 97, 58, 32, 123, 34, 99, 104, 111, 105, 99, 101, 115,
      34, 58, 91, 123, 34, 100, 101, 108, 116, 97, 34, 58, 123, 125, 44,
      34, 102, 105, 110, 105, 115, 104, 95, 114, 101, 97, 115, 111, 110,
      34, 58, 34, 115, 116, 111, 112, 34, 125, 93, 125>>

\* valid JSON, empty content, no finish_reason:
\*   data: {"choices":[{"delta":{"content":""},"finish_reason":null}]}
QuietLine ==
    <<100, 97, 116, 97, 58, 32, 123, 34, 99, 104, 111, 105, 99, 101, 115,
      34, 58, 91, 123, 34, 100, 101, 108, 116, 97, 34, 58, 123, 34, 99,
      111, 110, 116, 101, 110, 116, 34, 58, 34, 34, 125, 44, 34, 102, 105,
      110, 105, 115, 104, 95, 114, 101, 97, 115, 111, 110, 34, 58, 110,
      117, 108, 108, 125, 93, 125>>

\* the sentinel, as the first line of a CRLF line break:
\*   data: [DONE]\r
DoneLine ==
    <<100, 97, 116, 97, 58, 32, 91, 68, 79, 78, 69, 93, 13>>

\* a data line whose payload is not JSON:
\*   data: {"choices":[{"delta"
BadLine ==
    <<100, 97, 116, 97, 58, 32, 123, 34, 99, 104, 111, 105, 99, 101, 115,
      34, 58, 91, 123, 34, 100, 101, 108, 116, 97, 34>>

\* an SSE comment (keep-alive):
\*   : ping
CommentLine ==
    <<58, 32, 112, 105, 110, 103>>

\* the lines a server sends; the empty line is the blank line between events
FrameLines ==
    {ContentLine, BothLine, FinishLine, QuietLine, DoneLine, BadLine, CommentLine, <<>>}

\* the most lines of one body
MaxFrames == 2

\* the most bytes of one read that does not deliver the whole rest of the body
MaxRead == 4

\* the bodies of n complete (newline-terminated) lines
RECURSIVE Terminated(_)
Terminated(n) ==
    IF n = 0 THEN {<<>>}
    ELSE {p \o l \o <<LF>> : p \in Terminated(n - 1), l \in FrameLines}

\* every body of at most MaxFrames lines, the last one with or without its newline
Bodies ==
    UNION {Terminated(n) : n \in 0..MaxFrames}
    \cup UNION {{p \o l : p \in Terminated(n), l \in FrameLines \ {<<>>}} :
                  n \in 0..(MaxFrames - 1)}

\* what reader.read() may reject with
ReadErrors == {"NetworkError", "AbortError"}

-----------------------------------------------------------------------------
(* throwForStatus, the error classes, and the methods of the API classes    *)
(*                                                                         *)
(* JavaScript values (strings, undefined, null, parsed JSON) are the        *)
(* J-values of the JSON section.                                            *)

\* a ?? b
Nullish(a, b) == IF a.t \in {"undefined", "null"} THEN b ELSE a

\* a || b
OrElse(a, b) == IF Truthy(a) THEN a ELSE b

\* `BYOK API error (${response.status})`
DefaultMessage(status) ==
    JString(<<66, 89, 79, 75, 32, 65, 80, 73, 32, 101, 114, 114, 111, 114, 32, 40>> \o Decimal(status) \o <<41>>)

KeyError == <<101, 114, 114, 111, 114>>
KeyMessage == <<109, 101, 115, 115, 97, 103, 101>>
KeyCode == <<99, 111, 100, 101>>
KeyType == <<116, 121, 112, 101>>
KeyDetails == <<100, 101, 116, 97, 105, 108, 115>>

\* response.ok: the status is in the range 200-299
ResponseOk(resp) == resp.status >= 200 /\ resp.status <= 299

\* the body decoded as UTF-8, an incomplete sequence at the end giving U+FFFD
FlushText(r) == IF r.d.needed > 0 THEN r.out \o <<65533>> ELSE r.out

\* the text response.json() parses; a response without body has no text.  The
\* decoder removes one byte order mark; the Response of some runtimes (the
\* fetch of Node 20) removes a second one (resp.lenientBom)
LenientText(text) == IF text # <<>> /\ text[1] = 65279 THEN Tail(text) ELSE text
ResponseText(resp) ==
    IF resp.lenientBom THEN LenientText(FlushText(Decode(NewDecoder, resp.body)))
    ELSE FlushText(Decode(NewDecoder, resp.body))

\* how `await response.json()` settles: ok = resolved with v; ~ok = rejected
\* with an error of the given kind
Settlement(r, kind) == [ok |-> r.ok, v |-> r.v, kind |-> IF r.ok THEN "none" ELSE kind]

\* await response.json(): the read of the body fails with resp.bodyError, or
\* JSON.parse of the text gives the value or a SyntaxError
ResponseJson(resp) ==
    IF resp.bodyError # "none" THEN Settlement(ParseFail, resp.bodyError)
    ELSE Settlement(JSONParse(ResponseText(resp)), "SyntaxError")

\* err: { message: body.error } for a string, body.error otherwise
ErrorObject(e) ==
    IF e.t = "string" THEN JObject(<<[k |-> KeyMessage, v |-> e]>>) ELSE e

NoInfo(message) ==
    [message |-> message, code |-> JUndefined, type |-> JUndefined,
     details |-> JUndefined]

\* message, code, type, details read from err
InfoFrom(err, message) ==
    [message |-> Nullish(GetOptional(err, KeyMessage, -1), message),
     code |-> GetOptional(err, KeyCode, -1),
     type |-> GetOptional(err, KeyType, -1),
     details |-> GetOptional(err, KeyDetails, -1)]

\* the try block of throwForStatus once response.json() has settled with r
InfoOf(resp, r) ==
    IF ~r.ok THEN NoInfo(OrElse(JString(resp.statusText), DefaultMessage(resp.status)))
    ELSE IF Truthy(GetOptional(r.v, KeyError, -1))
    THEN InfoFrom(ErrorObject(GetOptional(r.v, KeyError, -1)), DefaultMessage(resp.status))
    ELSE NoInfo(DefaultMessage(resp.status))

\* the digits at the start of s from index i
RECURSIVE DigitsFrom(_, _)
DigitsFrom(s, i) ==
    IF i <= Len(s) /\ IsDigit(s[i]) THEN <<s[i]>> \o DigitsFrom(s, i + 1) ELSE <<>>

NaN == JNumber(<<78, 97, 78>>)

\* parseInt of a string without leading white space and sign: the Number
\* nearest to the integer its digits give
ParseDigits(ds, negative) ==
    IF ds = <<>> THEN NaN
    ELSE NumberValue((IF negative THEN <<45>> ELSE <<>>) \o ds)

\* parseInt(s, 10)
ParseInt(s) ==
    IF TrimStart(s) # <<>> /\ TrimStart(s)[1] \in {43, 45}
    THEN ParseDigits(DigitsFrom(TrimStart(s), 2), TrimStart(s)[1] = 45)
    ELSE ParseDigits(DigitsFrom(TrimStart(s), 1), FALSE)

\* retryAfter ? parseInt(retryAfter, 10) : undefined
RetryAfter(header) ==
    IF Truthy(header) THEN ParseInt(header.s) ELSE JUndefined

\* new Error(message): the message property is String(message); with
\* undefined there is none of its own and the prototype's "" is read
ErrorMessage(message) ==
    IF message.t = "undefined" THEN JString(<<>>) ELSE JString(StringOf(message))

NoError ==
    [kind |-> "none", status |-> 0, message |-> JString(<<>>), code |-> JUndefined,
     type |-> JUndefined, details |-> JUndefined, retryAfter |-> JUndefined]

\* an error that is not one of the SDK's classes
OtherError(kind) == [NoError EXCEPT !.kind = kind]

\* new ByokError(message, status, opts): super(message) converts the message
\* to a string and throws a TypeError when it has no conversion; the object
\* is not constructed then
ByokError(message, status, code, type, details) ==
    IF ~Convertible(message) THEN OtherError("TypeError")
    ELSE [kind |-> "ByokError", status |-> status, message |-> ErrorMessage(message),
          code |-> code,
          type |-> type, details |-> details, retryAfter |-> JUndefined]

\* the constructor of a subclass after super(...): this.name = name
Named(e, name) == IF e.kind = "ByokError" THEN [e EXCEPT !.kind = name] ELSE e

AuthenticationError(info) ==
    Named(ByokError(info.message, 401, info.code, info.type, JUndefined),
          "AuthenticationError")

PaymentRequiredError(info) ==
    Named(ByokError(info.message, 402, info.code, info.type, JUndefined),
          "PaymentRequiredError")

ForbiddenError(info) ==
    Named(ByokError(info.message, 403, info.code, info.type, JUndefined),
          "ForbiddenError")

NotFoundError(info) ==
    Named(ByokError(info.message, 404, info.code, info.type, JUndefined),
          "NotFoundError")

ValidationError(info) ==
    Named(ByokError(info.message, 422, info.code, info.type, info.details),
          "ValidationError")

\* this.retryAfter = opts?.retryAfter
WithRetryAfter(e, retryAfter) ==
    IF e.kind = "RateLimitError" THEN [e EXCEPT !.retryAfter = retryAfter] ELSE e

RateLimitError(info, retryAfter) ==
    WithRetryAfter(Named(ByokError(info.message, 429, info.code, info.type, JUndefined),
                         "RateLimitError"),
                   retryAfter)

ProviderError(info) ==
    Named(ByokError(info.message, 502, info.code, info.type, JUndefined),
          "ProviderError")

\* how a call of throwForStatus ends
Throw(e) == [threw |-> TRUE, error |-> e]

\* the switch on response.status
ThrowKind(resp, info) ==
    CASE resp.status = 401 -> Throw(AuthenticationError(info))
      [] resp.status = 402 -> Throw(PaymentRequiredError(info))
      [] resp.status = 403 -> Throw(ForbiddenError(info))
      [] resp.status = 404 -> Throw(NotFoundError(info))
      [] resp.status = 422 -> Throw(ValidationError(info))
      [] resp.status = 429 -> Throw(RateLimitError(info, RetryAfter(resp.retryAfter)))
      [] resp.status = 502 -> Throw(ProviderError(info))
      [] OTHER -> Throw(ByokError(info.message, resp.status, info.code, info.type,
                                  info.details))

\* throwForStatus(response)
ThrowForStatus(resp) == ThrowKind(resp, InfoOf(resp, ResponseJson(resp)))

\* the shared options of the API classes
\* baseUrl.replace(/\/+$/, "")
RECURSIVE StripSlashes(_)
StripSlashes(s) ==
    IF s # <<>> /\ s[Len(s)] = 47 THEN StripSlashes(SubSeq(s, 1, Len(s) - 1)) ELSE s

NewClient(apiKey, defaultUserId, baseUrl) ==
    [apiKey |-> apiKey, defaultUserId |-> defaultUserId, baseUrl |-> StripSlashes(baseUrl)]

Methods ==
    {"chat.create", "chat.stream",
     "events.poll", "events.ack", "events.ackBatch", "events.ingest",
     "players.register", "players.getProfile", "players.getHighlights",
     "players.getSpending", "players.getPassport", "players.setPassportConsent",
     "state.get", "state.update", "wallet.get", "wallet.checkout"}

\* `Bearer ${this.opts.apiKey}`
Bearer(client) == JString(<<66, 101, 97, 114, 101, 114, 32>> \o client.apiKey)

\* userId ?? this.opts.defaultUserId ?? ""
UserHeader(client, userId) == Nullish(userId, Nullish(client.defaultUserId, JString(<<>>)))

\* the methods that put an argument into the path with encodeURIComponent
PathMethods ==
    {"events.ack", "players.getProfile", "players.getHighlights", "players.getSpending",
     "players.getPassport"}

\* the methods that build their address with new URL(...)
UrlMethods == {"events.poll", "players.getHighlights"}

\* the methods that send JSON.stringify(...) of their argument as the body
BodyMethods ==
    {"chat.create", "chat.stream", "events.ackBatch", "events.ingest", "players.register",
     "players.setPassportConsent", "state.update", "wallet.checkout"}

IsHighSurrogate(c) == c >= 55296 /\ c <= 56319
IsLowSurrogate(c) == c >= 56320 /\ c <= 57343

\* encodeURIComponent(s) gives a value: every surrogate of s is half of a
\* pair; a lone surrogate makes it throw a URIError
Encodable(s) ==
    \A i \in 1..Len(s) :
        /\ IsHighSurrogate(s[i]) => (i < Len(s) /\ IsLowSurrogate(s[i + 1]))
        /\ IsLowSurrogate(s[i]) => (i > 1 /\ IsHighSurrogate(s[i - 1]))

IsLetter(c) == (c >= 65 /\ c <= 90) \/ (c >= 97 /\ c <= 122)

\* ---- new URL(text) without a base: the URL parser of the platform ----

\* the first place from i on whose code unit passes Test, Len(s) + 1 when
\* there is none
Find(s, i, Test(_)) ==
    CHOOSE j \in i..(Len(s) + 1) :
        /\ j = Len(s) + 1 \/ Test(s[j])
        /\ \A k \in i..(j - 1) : ~Test(s[k])

\* the last place whose code unit passes Test, 0 when there is none
FindLast(s, Test(_)) ==
    CHOOSE j \in 0..Len(s) :
        /\ j = 0 \/ Test(s[j])
        /\ \A k \in (j + 1)..Len(s) : ~Test(s[k])

AsciiLower(s) == [i \in 1..Len(s) |-> IF s[i] >= 65 /\ s[i] <= 90 THEN s[i] + 32 ELSE s[i]]

\* the parts of s between the code units sep
RECURSIVE SplitOn(_, _)
SplitOn(s, sep) ==
    IF Find(s, 1, LAMBDA c : c = sep) > Len(s) THEN <<s>>
    ELSE <<SubSeq(s, 1, Find(s, 1, LAMBDA c : c = sep) - 1)>>
         \o SplitOn(SubSeq(s, Find(s, 1, LAMBDA c : c = sep) + 1, Len(s)), sep)

\* the parser first removes the leading and trailing C0 controls and spaces,
\* then every tab and newline
UrlInput(text) ==
    SelectSeq(SubSeq(text, Find(text, 1, LAMBDA c : c > 32), FindLast(text, LAMBDA c : c > 32)),
              LAMBDA c : c \notin {9, 10, 13})

IsSchemeChar(c) == IsLetter(c) \/ IsDigit(c) \/ c \in {43, 45, 46}

\* scheme start state, scheme state: the place of the ":" that ends the
\* scheme, 0 when the text does not start with a scheme
SchemeEnd(s) ==
    IF s # <<>> /\ IsLetter(s[1]) /\ Find(s, 2, LAMBDA c : ~IsSchemeChar(c)) <= Len(s)
                /\ s[Find(s, 2, LAMBDA c : ~IsSchemeChar(c))] = 58
    THEN Find(s, 2, LAMBDA c : ~IsSchemeChar(c))
    ELSE 0

\* the text, as the parser reads it, starts with a scheme: a letter, then
\* letters, digits, "+", "-", ".", then ":"
HasScheme(text) == SchemeEnd(UrlInput(text)) > 0

\* "file", and the other special schemes "ftp", "http", "https", "ws", "wss"
FileScheme == <<102, 105, 108, 101>>
SpecialSchemes ==
    {<<102, 116, 112>>, <<104, 116, 116, 112>>, <<104, 116, 116, 112, 115>>,
     <<119, 115>>, <<119, 115, 115>>}

\* forbidden host code points, forbidden domain code points
IsForbiddenHost(c) == c \in {0, 9, 10, 13, 32, 35, 47, 58, 60, 62, 63, 64, 91, 92, 93, 94, 124}
IsForbiddenDomain(c) == IsForbiddenHost(c) \/ c <= 31 \/ c \in {37, 127}

\* percent-decode: "%" and two hexadecimal digits give one byte
RECURSIVE PercentDecode(_)
PercentDecode(s) ==
    IF s = <<>> THEN <<>>
    ELSE IF s[1] = 37 /\ Len(s) >= 3 /\ IsHexDigit(s[2]) /\ IsHexDigit(s[3])
         THEN <<16 * HexValue(s[2]) + HexValue(s[3])>> \o PercentDecode(SubSeq(s, 4, Len(s)))
         ELSE <<s[1]>> \o PercentDecode(Tail(s))

\* IPv4 number parser: the radix and the digits of a part
Ipv4Radix(part) ==
    IF Len(part) >= 2 /\ part[1] = 48 /\ part[2] \in {88, 120} THEN 16
    ELSE IF Len(part) >= 2 /\ part[1] = 48 THEN 8
    ELSE 10

Ipv4Digits(part) ==
    IF Ipv4Radix(part) = 16 THEN SubSeq(part, 3, Len(part))
    ELSE IF Ipv4Radix(part) = 8 THEN Tail(part)
    ELSE part

IsRadixDigit(c, radix) ==
    IF radix = 16 THEN IsHexDigit(c)
    ELSE IF radix = 8 THEN c >= 48 /\ c <= 55
    ELSE IsDigit(c)

\* the IPv4 number parser gives a number
IsIpv4Number(part) ==
    /\ part # <<>>
    /\ \A i \in 1..Len(Ipv4Digits(part)) : IsRadixDigit(Ipv4Digits(part)[i], Ipv4Radix(part))

\* the digits without their leading zeros
Significant(digits) == SubSeq(digits, Find(digits, 1, LAMBDA c : c # 48), Len(digits))

\* 256^k in decimal digits, for k in 1..4
PowerOf256 ==
    <<<<50, 53, 54>>, <<54, 53, 53, 51, 54>>, <<49, 54, 55, 55, 55, 50, 49, 54>>,
      <<52, 50, 57, 52, 57, 54, 55, 50, 57, 54>>>>

\* decimal digits without leading zeros: a < b
DecimalLess(a, b) ==
    \/ Len(a) < Len(b)
    \/ /\ Len(a) = Len(b)
       /\ \E i \in 1..Len(a) : a[i] < b[i] /\ \A j \in 1..(i - 1) : a[j] = b[j]

\* the number of binary digits of an octal digit that is not zero
OctalBits(c) == IF c >= 52 THEN 3 ELSE IF c >= 50 THEN 2 ELSE 1

\* the number of a part is below 256^k
BelowPowerOf256(part, k) ==
    LET digits == Significant(Ipv4Digits(part))
    IN  IF digits = <<>> THEN TRUE
        ELSE IF Ipv4Radix(part) = 16 THEN Len(digits) <= 2 * k
        ELSE IF Ipv4Radix(part) = 8 THEN 3 * (Len(digits) - 1) + OctalBits(digits[1]) <= 8 * k
        ELSE DecimalLess(digits, PowerOf256[k])

\* the parts of a domain between its dots, without the empty part after a
\* last dot
Ipv4Parts(domain) ==
    IF domain # <<>> /\ domain[Len(domain)] = 46
    THEN SplitOn(SubSeq(domain, 1, Len(domain) - 1), 46)
    ELSE SplitOn(domain, 46)

\* ends-in-a-number checker
EndsInANumber(domain) ==
    LET last == Ipv4Parts(domain)[Len(Ipv4Parts(domain))]
    IN  \/ last # <<>> /\ \A i \in 1..Len(last) : IsDigit(last[i])
        \/ IsIpv4Number(last)

\* IPv4 parser: at most four numbers, each but the last at most 255, the
\* last below 256^(5 - size)
Ipv4Parses(domain) ==
    LET parts == Ipv4Parts(domain)
    IN  /\ Len(parts) <= 4
        /\ \A i \in 1..Len(parts) : IsIpv4Number(parts[i])
        /\ \A i \in 1..(Len(parts) - 1) : BelowPowerOf256(parts[i], 1)
        /\ BelowPowerOf256(parts[Len(parts)], 5 - Len(parts))

\* IPv6 parser, the IPv4 address at the end: four decimal numbers up to 255
\* without leading zeros
Ipv4InIpv6(s) ==
    /\ Len(SplitOn(s, 46)) = 4
    /\ \A i \in 1..4 :
          LET part == SplitOn(s, 46)[i]
          IN  /\ part # <<>>
              /\ \A j \in 1..Len(part) : IsDigit(part[j])
              /\ Len(part) = 1 \/ part[1] # 48
              /\ DecimalLess(part, PowerOf256[1])

\* IPv6 parser, from place p with `pieces` pieces read; compress says that
\* "::" has been read
RECURSIVE Ipv6From(_, _, _, _)
Ipv6From(s, p, pieces, compress) ==
    IF p > Len(s) THEN compress \/ pieces = 8
    ELSE IF pieces = 8 THEN FALSE
    ELSE IF s[p] = 58 THEN ~compress /\ Ipv6From(s, p + 1, pieces + 1, TRUE)
    ELSE LET hexEnd == Find(s, p, LAMBDA c : ~IsHexDigit(c))
             q == IF hexEnd > p + 4 THEN p + 4 ELSE hexEnd
         IN  IF q > Len(s) THEN Ipv6From(s, q, pieces + 1, compress)
             ELSE IF s[q] = 46
                  THEN /\ q > p
                       /\ pieces <= 6
                       /\ Ipv4InIpv6(SubSeq(s, p, Len(s)))
                       /\ compress \/ pieces = 6
             ELSE IF s[q] = 58 THEN q < Len(s) /\ Ipv6From(s, q + 1, pieces + 1, compress)
             ELSE FALSE

Ipv6Parses(s) ==
    IF s # <<>> /\ s[1] = 58
    THEN Len(s) >= 2 /\ s[2] = 58 /\ Ipv6From(s, 3, 1, TRUE)
    ELSE Ipv6From(s, 1, 0, FALSE)

\* a label of the domain starts with "xn--"; a label is "xn--" alone
IsAceAt(domain, i) ==
    /\ i = 1 \/ domain[i - 1] = 46
    /\ i + 3 <= Len(domain)
    /\ AsciiLower(SubSeq(domain, i, i + 3)) = <<120, 110, 45, 45>>

HasAceLabel(domain) == \E i \in 1..Len(domain) : IsAceAt(domain, i)

HasEmptyAceLabel(domain) ==
    \E i \in 1..Len(domain) :
        IsAceAt(domain, i) /\ (i + 3 = Len(domain) \/ domain[i + 4] = 46)

\* host parser for a domain: "url", "failure", or "unicode" when the
\* percent-decoded domain has a code point outside ASCII or a label that
\* starts with "xn--": domain to ASCII then decides with the Unicode tables
\* of the runtime.  An ASCII domain is lowercased and fails on a forbidden
\* domain code point and on a last part that is a number when the whole is
\* no IPv4 address
DomainParse(input) ==
    LET domain == PercentDecode(input)
    IN  IF \E i \in 1..Len(domain) : IsForbiddenDomain(domain[i]) THEN "failure"
        ELSE IF HasEmptyAceLabel(domain) THEN "failure"
        ELSE IF HasAceLabel(domain) \/ \E i \in 1..Len(domain) : domain[i] >= 128 THEN "unicode"
        ELSE IF EndsInANumber(domain) /\ ~Ipv4Parses(domain) THEN "failure"
        ELSE "url"

Verdict(ok) == IF ok THEN "url" ELSE "failure"

\* host parser: an address in brackets, an opaque host, or a domain
HostParse(input, isOpaque) ==
    IF input # <<>> /\ input[1] = 91
    THEN Verdict(input[Len(input)] = 93 /\ Ipv6Parses(SubSeq(input, 2, Len(input) - 1)))
    ELSE IF isOpaque THEN Verdict(\A i \in 1..Len(input) : ~IsForbiddenHost(input[i]))
    ELSE DomainParse(input)

\* port state: digits only, and a number up to 65535
PortParses(port) ==
    /\ \A i \in 1..Len(port) : IsDigit(port[i])
    /\ DecimalLess(Significant(port), PowerOf256[2])

\* place i of s is inside brackets: the nearest bracket before it is "["
InsideBrackets(s, i) ==
    LET before == SubSeq(s, 1, i - 1)
    IN  FindLast(before, LAMBDA c : c \in {91, 93}) > 0
        /\ before[FindLast(before, LAMBDA c : c \in {91, 93})] = 91

\* host state and port state on the text between the credentials and the
\* path: the host ends at the first ":" outside brackets
HostAndPort(s, special) ==
    LET colon == CHOOSE j \in 1..(Len(s) + 1) :
                     /\ j = Len(s) + 1 \/ (s[j] = 58 /\ ~InsideBrackets(s, j))
                     /\ \A k \in 1..(j - 1) : ~(s[k] = 58 /\ ~InsideBrackets(s, k))
        host == SubSeq(s, 1, colon - 1)
    IN  IF colon <= Len(s)
        THEN IF host = <<>> \/ ~PortParses(SubSeq(s, colon + 1, Len(s))) THEN "failure"
             ELSE HostParse(host, ~special)
        ELSE IF special /\ host = <<>> THEN "failure"
        ELSE HostParse(host, ~special)

\* authority state: the authority ends at "/", "?", "#" (and "\" for a
\* special scheme); the host starts after its last "@" and is not empty then
Authority(s, special) ==
    LET auth == SubSeq(s, 1, Find(s, 1, LAMBDA c : c \in {47, 63, 35} \/ (special /\ c = 92)) - 1)
        at == FindLast(auth, LAMBDA c : c = 64)
    IN  IF at > 0 /\ at = Len(auth) THEN "failure"
        ELSE HostAndPort(SubSeq(auth, at + 1, Len(auth)), special)

\* a Windows drive letter: a letter and ":" or "|"
IsDriveLetter(s) == Len(s) = 2 /\ IsLetter(s[1]) /\ s[2] \in {58, 124}

\* file state, file slash state, file host state
FileParse(s) ==
    IF Len(s) >= 2 /\ s[1] \in {47, 92} /\ s[2] \in {47, 92}
    THEN LET host == SubSeq(s, 3, Find(s, 3, LAMBDA c : c \in {47, 92, 63, 35}) - 1)
         IN  IF host = <<>> \/ IsDriveLetter(host) THEN "url" ELSE HostParse(host, FALSE)
    ELSE "url"

\* the basic URL parser without a base, on the text after preprocessing:
\* "failure" without a scheme; a special scheme skips every "/" and "\" and
\* reads an authority; another scheme reads one after "//"; path, query and
\* fragment never fail
UrlParseInput(s) ==
    LET scheme == AsciiLower(SubSeq(s, 1, SchemeEnd(s) - 1))
        rest == SubSeq(s, SchemeEnd(s) + 1, Len(s))
    IN  IF SchemeEnd(s) = 0 THEN "failure"
        ELSE IF scheme = FileScheme THEN FileParse(rest)
        ELSE IF scheme \in SpecialSchemes
             THEN Authority(SubSeq(rest, Find(rest, 1, LAMBDA c : c \notin {47, 92}), Len(rest)), TRUE)
        ELSE IF Len(rest) >= 2 /\ rest[1] = 47 /\ rest[2] = 47
             THEN Authority(SubSeq(rest, 3, Len(rest)), FALSE)
        ELSE "url"

\* new URL(text): "url", "failure" (a TypeError), or "unicode"
UrlParse(text) == UrlParseInput(UrlInput(text))

\* new URL(text) gives a value; idna is the verdict of the runtime's Unicode
\* tables on a domain that is not plain ASCII
UrlParses(text, idna) == UrlParse(text) = "url" \/ (UrlParse(text) = "unicode" /\ idna)

\* the characters encodeURIComponent leaves alone: letters, digits and
\* - _ . ! ~ * ' ( )
IsUnreserved(c) == IsLetter(c) \/ IsDigit(c) \/ c \in {45, 95, 46, 33, 126, 42, 39, 40, 41}

HexDigit(n) == IF n < 10 THEN 48 + n ELSE 55 + n

\* "%XX" for every byte
RECURSIVE Escaped(_)
Escaped(bytes) ==
    IF bytes = <<>> THEN <<>>
    ELSE <<37, HexDigit(bytes[1] \div 16), HexDigit(bytes[1] % 16)>> \o Escaped(Tail(bytes))

\* the UTF-8 bytes of a code point
Utf8Bytes(cp) ==
    IF cp < 128 THEN <<cp>>
    ELSE IF cp < 2048 THEN <<192 + (cp \div 64), 128 + (cp % 64)>>
    ELSE IF cp < 65536
         THEN <<224 + (cp \div 4096), 128 + ((cp \div 64) % 64), 128 + (cp % 64)>>
    ELSE <<240 + (cp \div 262144), 128 + ((cp \div 4096) % 64), 128 + ((cp \div 64) % 64),
           128 + (cp % 64)>>

\* encodeURIComponent(s) of an encodable s
RECURSIVE EncodeURIComponent(_)
EncodeURIComponent(s) ==
    IF s = <<>> THEN <<>>
    ELSE IF IsUnreserved(s[1]) THEN <<s[1]>> \o EncodeURIComponent(Tail(s))
    ELSE IF IsHighSurrogate(s[1])
         THEN Escaped(Utf8Bytes(65536 + (s[1] - 55296) * 1024 + (s[2] - 56320)))
              \o EncodeURIComponent(SubSeq(s, 3, Len(s)))
    ELSE Escaped(Utf8Bytes(s[1])) \o EncodeURIComponent(Tail(s))

\* the value handed to JSON.stringify: plain data, or data that holds a
\* BigInt or refers to itself
Payloads == {"plain", "bigint", "circular"}

\* JSON.stringify(value) gives a text; a BigInt and a circular structure make
\* it throw a TypeError
Stringifies(payload) == payload = "plain"

\* `${this.opts.baseUrl}/api/v1/events`
EventsUrl(client) == client.baseUrl \o <<47, 97, 112, 105, 47, 118, 49, 47, 101, 118, 101, 110, 116, 115>>

\* `${this.opts.baseUrl}/api/v1/players/${encodeURIComponent(playerId)}/highlights`
HighlightsUrl(client, playerId) ==
    client.baseUrl \o <<47, 97, 112, 105, 47, 118, 49, 47, 112, 108, 97, 121, 101, 114, 115, 47>>
        \o EncodeURIComponent(playerId) \o <<47, 104, 105, 103, 104, 108, 105, 103, 104, 116, 115>>

\* the text a method hands to new URL
UrlText(client, method, id) ==
    IF method = "players.getHighlights" THEN HighlightsUrl(client, id) ELSE EventsUrl(client)

\* what a method evaluates before it calls fetch, in the order of the code:
\* the error thrown there, or "none"
BeforeFetch(client, method, id, payload, idna) ==
    IF method \in PathMethods /\ ~Encodable(id) THEN "URIError"
    ELSE IF method \in UrlMethods /\ ~UrlParses(UrlText(client, method, id), idna) THEN "TypeError"
    ELSE IF method \in BodyMethods /\ ~Stringifies(payload) THEN "TypeError"
    ELSE "none"

\* the headers of a request; user is undefined when X-Byok-User is not sent
NoRequest == [authorization |-> JUndefined, user |-> JUndefined]

\* authHeaders(userId) of EventsAPI, PlayersAPI and StateAPI, and the headers
\* that ChatAPI and WalletAPI build in place
AuthHeaders(client, userId) ==
    [authorization |-> Bearer(client), user |-> UserHeader(client, userId)]

\* the headers of players.register
RegisterHeaders(client) == [authorization |-> Bearer(client), user |-> JUndefined]

\* the request a method sends
RequestOf(client, method, userId) ==
    IF method = "players.register" THEN RegisterHeaders(client)
    ELSE AuthHeaders(client, userId)

NoResponse ==
    [status |-> 0, statusText |-> <<>>, hasBody |-> FALSE, bodyError |-> "none",
     lenientBom |-> FALSE, body |-> <<>>, retryAfter |-> JNull]

\* one call of a method.  pc: "idle", "created" (the generator of chat.stream
\* before its first next()), "fetching" (await fetch), "json" (await
\* response.json(), in the method or in throwForStatus), "streaming" (yield*
\* parseSSEStream), "done".  id is the argument that goes into the path,
\* payload the argument that goes into the body.  sent counts the requests
\* handed to fetch; asSuccess says that the body was read as the method's
\* result; asked says that the consumer of chat.stream has called next().
NewCall(method, userId, id, payload) ==
    [pc |-> "idle", method |-> method, userId |-> userId, id |-> id,
     payload |-> payload, asked |-> FALSE, request |-> NoRequest,
     response |-> NoResponse, outcome |-> "pending", error |-> NoError,
     value |-> JUndefined, asSuccess |-> FALSE, sent |-> 0]

NoCall == NewCall("none", JUndefined, <<>>, "plain")

\* await this.opts.fetch(url, {headers, ...})
Fetch(c, client) ==
    [c EXCEPT !.pc = "fetching", !.request = RequestOf(client, c.method, c.userId),
              !.sent = @ + 1]

\* the call ends with a thrown error
Reject(c, e) == [c EXCEPT !.pc = "done", !.outcome = "threw", !.error = e]

\* the body of a method up to `await this.opts.fetch(...)`: an argument of
\* the call of fetch throws, or fetch is called
Start(c, client, idna) ==
    IF BeforeFetch(client, c.method, c.id, c.payload, idna) = "none" THEN Fetch(c, client)
    ELSE Reject(c, OtherError(BeforeFetch(client, c.method, c.id, c.payload, idna)))

\* return (await response.json()) as T
ReturnJson(c, r) ==
    IF r.ok THEN [c EXCEPT !.pc = "done", !.outcome = "returned", !.value = r.v,
                           !.asSuccess = TRUE]
    ELSE [Reject(c, OtherError(r.kind)) EXCEPT !.asSuccess = TRUE]

\* the statement after `await throwForStatus(response)`, reached if it returned
Checked(c, t, rest) == IF t.threw THEN Reject(c, t.error) ELSE rest

\* if (!response.ok) await throwForStatus(response); return await response.json()
JsonResponse(c, resp) ==
    IF ~ResponseOk(resp)
    THEN Checked([c EXCEPT !.response = resp], ThrowForStatus(resp),
                 ReturnJson([c EXCEPT !.response = resp], ResponseJson(resp)))
    ELSE ReturnJson([c EXCEPT !.response = resp], ResponseJson(resp))

\* what fetch resolves with: the status line and the headers of the response
\* and whether it has a body; the content of the body comes later
HeadOf(resp) ==
    [resp EXCEPT !.body = <<>>, !.bodyError = "none", !.lenientBom = FALSE]

\* the method calls response.json() and waits for it
AwaitJson(c, resp) == [c EXCEPT !.response = HeadOf(resp), !.pc = "json"]

\* if (!response.ok) await throwForStatus(response); yield* parseSSEStream(response)
\* up to the first wait: response.json() inside throwForStatus, or the stream
StreamResponse(c, resp) ==
    IF ~ResponseOk(resp) THEN AwaitJson(c, resp)
    ELSE [c EXCEPT !.response = resp, !.pc = "streaming"]

\* what a method does when fetch resolves
OnResponse(c, resp) ==
    IF c.method = "chat.stream" THEN StreamResponse(c, resp) ELSE AwaitJson(c, resp)

\* chat.stream once the response.json() of throwForStatus has settled
StreamRejected(c, resp) ==
    Checked([c EXCEPT !.response = resp], ThrowForStatus(resp),
            [c EXCEPT !.response = resp, !.pc = "streaming"])

\* what a method does when response.json() settles
OnJson(c, resp) ==
    IF c.method = "chat.stream" THEN StreamRejected(c, resp) ELSE JsonResponse(c, resp)

\* fetch rejected
OnFetchError(c) == Reject(c, OtherError("TypeError"))

\* the client and its call; calls counts the calls made, before is the userId
\* given to the call before this one
NewApi(client) ==
    [client |-> client, call |-> NoCall, calls |-> 0, before |-> JUndefined]

\* an error object:
\*   {"error":{"message":"slow down","code":"quota"}}
BodyObject ==
    <<123, 34, 101, 114, 114, 111, 114, 34, 58, 123, 34, 109, 101, 115,
      115, 97, 103, 101, 34, 58, 34, 115, 108, 111, 119, 32, 100, 111, 119,
      110, 34, 44, 34, 99, 111, 100, 101, 34, 58, 34, 113, 117, 111, 116,
      97, 34, 125, 125>>

\* an error string:
\*   {"error":"nope"}
BodyString ==
    <<123, 34, 101, 114, 114, 111, 114, 34, 58, 34, 110, 111, 112, 101, 34,
      125>>

\* an error object without message:
\*   {"error":{"code":"c","type":"t","details":[1]}}
BodyNoMessage ==
    <<123, 34, 101, 114, 114, 111, 114, 34, 58, 123, 34, 99, 111, 100, 101,
      34, 58, 34, 99, 34, 44, 34, 116, 121, 112, 101, 34, 58, 34, 116, 34,
      44, 34, 100, 101, 116, 97, 105, 108, 115, 34, 58, 91, 49, 93, 125,
      125>>

\* JSON without error:
\*   {"ok":true}
BodyNoError ==
    <<123, 34, 111, 107, 34, 58, 116, 114, 117, 101, 125>>

\* not JSON:
\*   <html>
BodyHtml ==
    <<60, 104, 116, 109, 108, 62>>

\* JSON null:
\*   null
BodyNull ==
    <<110, 117, 108, 108>>

\* an empty error string:
\*   {"error":""}
BodyEmptyError ==
    <<123, 34, 101, 114, 114, 111, 114, 34, 58, 34, 34, 125>>

\* an error object whose message has no conversion to a string:
\*   {"error":{"message":{"toString":1}}}
BodyMessageObject ==
    <<123, 34, 101, 114, 114, 111, 114, 34, 58, 123, 34, 109, 101, 115, 115, 97, 103, 101, 34, 58, 123, 34, 116, 111, 83, 116, 114, 105, 110, 103, 34, 58, 49, 125, 125, 125>>

\* the bodies of a response: readable bytes, no body, or a body whose read fails
ResponseBodies ==
    {[hasBody |-> TRUE, bodyError |-> "none", body |-> b] :
        b \in {BodyObject, BodyString, BodyNoMessage, BodyNoError, BodyHtml, BodyNull,
               BodyEmptyError, BodyMessageObject,
               ContentLine \o <<LF>> \o DoneLine \o <<LF>>}}
    \cup {[hasBody |-> FALSE, bodyError |-> "none", body |-> <<>>]}
    \cup {[hasBody |-> TRUE, bodyError |-> e, body |-> <<>>] : e \in ReadErrors}

\* a second byte order mark is where the runtimes differ
ByteOrderMark == <<239, 187, 191>>
BomModes(body) ==
    IF StartsWith(body, ByteOrderMark \o ByteOrderMark) THEN BOOLEAN ELSE {FALSE}

Statuses == {200, 299, 300, 400, 401, 402, 403, 404, 422, 429, 500, 502}

\* "", "Too Many Requests"
StatusTexts == {<<>>, <<84, 111, 111, 32, 77, 97, 110, 121, 32, 82, 101, 113, 117, 101, 115, 116, 115>>}

\* absent, "30", "soon"
RetryAfterHeaders == {JNull, JString(<<51, 48>>), JString(<<115, 111, 111, 110>>)}

Responses ==
    UNION {{[status |-> st, statusText |-> tx, hasBody |-> b.hasBody,
             bodyError |-> b.bodyError, lenientBom |-> l, body |-> b.body,
             retryAfter |-> h] : l \in BomModes(b.body)} :
        st \in Statuses, tx \in StatusTexts, b \in ResponseBodies, h \in RetryAfterHeaders}

\* "sk", and the user ids "u1" (client) and "u2" (per call)
ApiKey == <<115, 107>>

\* "https://h/", "h" (a host name without its scheme), and "https://\u00E9",
\* whose host is left to the Unicode tables of the runtime
BaseUrls ==
    {<<104, 116, 116, 112, 115, 58, 47, 47, 104, 47>>, <<104>>,
     <<104, 116, 116, 112, 115, 58, 47, 47, 233>>}
BaseUrl == <<104, 116, 116, 112, 115, 58, 47, 47, 104, 47>>

\* "p1", U+1F600 as a surrogate pair, and a high surrogate alone
PathIds == {<<112, 49>>, <<55357, 56832>>, <<55357>>}
DefaultUserIds == {JUndefined, JString(<<117, 49>>)}
UserIds == {JUndefined, JString(<<117, 50>>)}

-----------------------------------------------------------------------------
(* The state machine                                                        *)

vars == <<gen, api>>

\* one parseSSEStream(response) invocation, on a response with or without a body
Init ==
    \E hasBody \in BOOLEAN :
        \E src \in (IF hasBody THEN Bodies ELSE {<<>>}) :
            /\ gen = [s \in Streams |-> IF s = 1 THEN NewStream(hasBody, src) ELSE IdleStream]
            /\ api = NewApi(NewClient(ApiKey, JUndefined, BaseUrl))

\* the lengths a read may deliver from the n bytes left
ReadSizes(n) == {k \in 0..n : k <= MaxRead \/ k = n}

\* the consumer asks for the next chunk
ConsumerNext(s) ==
    /\ gen[s].pc \in {"start"} \cup YieldPoints
    /\ gen' = [gen EXCEPT ![s] = Resume(gen[s])]
    /\ UNCHANGED api

\* the consumer leaves the iteration (break, return())
ConsumerReturn(s) ==
    /\ gen[s].pc \in {"start"} \cup YieldPoints
    /\ gen' = [gen EXCEPT ![s] = Abandon(gen[s])]
    /\ UNCHANGED api

\* the consumer throws an error into the generator (throw())
ConsumerThrow(s) ==
    /\ gen[s].pc \in {"start"} \cup YieldPoints
    /\ gen' = [gen EXCEPT ![s] = ThrowInto(gen[s])]
    /\ UNCHANGED api

\* notes whether the read ended inside a UTF-8 sequence
Observed(g) == [g EXCEPT !.midCode = @ \/ g.dec.needed > 0]

\* the pending read delivers the next k bytes of the body
ReadChunk(s) ==
    /\ gen[s].pc = "read"
    /\ ~gen[s].broken
    /\ \E k \in ReadSizes(Len(gen[s].src) - gen[s].pos) :
          gen' = [gen EXCEPT ![s] =
                    Observed(OnRead(gen[s],
                                    SubSeq(gen[s].src, gen[s].pos + 1, gen[s].pos + k)))]
    /\ UNCHANGED api

\* the pending read reports end-of-data
ReadEnd(s) ==
    /\ gen[s].pc = "read"
    /\ gen[s].pos = Len(gen[s].src)
    /\ ~gen[s].broken
    /\ gen' = [gen EXCEPT ![s] = OnEnd(gen[s])]
    /\ UNCHANGED api

\* the pending read fails
ReadFail(s) ==
    /\ gen[s].pc = "read"
    /\ \E e \in ReadErrors : gen' = [gen EXCEPT ![s] = OnReadError(gen[s], e)]
    /\ UNCHANGED api

Next ==
    \E s \in Streams :
        \/ ConsumerNext(s)
        \/ ConsumerReturn(s)
        \/ ConsumerThrow(s)
        \/ ReadChunk(s)
        \/ ReadEnd(s)
        \/ ReadFail(s)

Spec == Init /\ [][Next]_vars

\* a generator is suspended at its start or at a yield: next() can be called
Suspended == \E s \in Streams : gen[s].pc \in {"start"} \cup YieldPoints

\* a read is pending and the body has bytes left to deliver
MoreToRead ==
    \E s \in Streams :
        gen[s].pc = "read" /\ ~gen[s].broken /\ gen[s].pos < Len(gen[s].src)

\* the for await loop of the consumer: a suspended generator is asked for its
\* next chunk.  This is weak fairness of ConsumerNext with its enabling
\* condition, Suspended, written out.
ConsumerKeepsAsking ==
    []<>(~Suspended) \/ []<><<\E s \in Streams : ConsumerNext(s)>>_vars

\* the body is delivered: a pending read with bytes left eventually delivers
\* some (weak fairness of ReadChunk, its enabling condition MoreToRead written
\* out), and one with no byte left eventually reports end-of-data, unless the
\* read fails
ReadsSettle ==
    /\ []<>(~MoreToRead) \/ []<><<\E s \in Streams : ReadChunk(s)>>_vars
    /\ WF_vars(\E s \in Streams : ReadEnd(s))

\* two content lines; content and an unterminated [DONE]; a malformed rest
LiveBodies ==
    {ContentLine \o <<LF>> \o ContentLine \o <<LF>>,
     ContentLine \o <<LF>> \o DoneLine,
     BadLine}

InitLive ==
    /\ \E hasBody \in BOOLEAN :
          \E src \in (IF hasBody THEN LiveBodies ELSE {<<>>}) :
              gen = [s \in Streams |-> IF s = 1 THEN NewStream(hasBody, src) ELSE IdleStream]
    /\ api = NewApi(NewClient(ApiKey, JUndefined, BaseUrl))

SpecLive == InitLive /\ [][Next]_vars /\ ConsumerKeepsAsking /\ ReadsSettle

-----------------------------------------------------------------------------
(* The decoder on payloads whose delta.content is of any JSON type          *)

\* content a number:
\*   data: {"choices":[{"delta":{"content":7}}]}
NumberLine ==
    <<100, 97, 116, 97, 58, 32, 123, 34, 99, 104, 111, 105, 99, 101, 115,
      34, 58, 91, 123, 34, 100, 101, 108, 116, 97, 34, 58, 123, 34, 99,
      111, 110, 116, 101, 110, 116, 34, 58, 55, 125, 125, 93, 125>>

\* content the number 0:
\*   data: {"choices":[{"delta":{"content":0}}]}
ZeroLine ==
    <<100, 97, 116, 97, 58, 32, 123, 34, 99, 104, 111, 105, 99, 101, 115,
      34, 58, 91, 123, 34, 100, 101, 108, 116, 97, 34, 58, 123, 34, 99,
      111, 110, 116, 101, 110, 116, 34, 58, 48, 125, 125, 93, 125>>

\* content a boolean:
\*   data: {"choices":[{"delta":{"content":true}}]}
TrueLine ==
    <<100, 97, 116, 97, 58, 32, 123, 34, 99, 104, 111, 105, 99, 101, 115,
      34, 58, 91, 123, 34, 100, 101, 108, 116, 97, 34, 58, 123, 34, 99,
      111, 110, 116, 101, 110, 116, 34, 58, 116, 114, 117, 101, 125, 125,
      93, 125>>

\* content an object:
\*   data: {"choices":[{"delta":{"content":{"a":1}}}]}
ObjectLine ==
    <<100, 97, 116, 97, 58, 32, 123, 34, 99, 104, 111, 105, 99, 101, 115,
      34, 58, 91, 123, 34, 100, 101, 108, 116, 97, 34, 58, 123, 34, 99,
      111, 110, 116, 101, 110, 116, 34, 58, 123, 34, 97, 34, 58, 49, 125,
      125, 125, 93, 125>>

\* content an array:
\*   data: {"choices":[{"delta":{"content":[]}}]}
ArrayLine ==
    <<100, 97, 116, 97, 58, 32, 123, 34, 99, 104, 111, 105, 99, 101, 115,
      34, 58, 91, 123, 34, 100, 101, 108, 116, 97, 34, 58, 123, 34, 99,
      111, 110, 116, 101, 110, 116, 34, 58, 91, 93, 125, 125, 93, 125>>

\* no content:
\*   data: {"choices":[{"delta":{}}]}
AbsentLine ==
    <<100, 97, 116, 97, 58, 32, 123, 34, 99, 104, 111, 105, 99, 101, 115,
      34, 58, 91, 123, 34, 100, 101, 108, 116, 97, 34, 58, 123, 125, 125,
      93, 125>>

\* the lines without content and without finish_reason
QuietLines == {QuietLine, AbsentLine}

\* one line, or a quiet line and another line
ShapeBodies ==
    {l \o <<LF>> :
        l \in {ContentLine, NumberLine, ZeroLine, TrueLine, ObjectLine, ArrayLine} \cup QuietLines}
    \cup {q \o <<LF>> \o l \o <<LF>> : q \in QuietLines, l \in {ContentLine, NumberLine}}

InitShapes ==
    /\ \E src \in ShapeBodies :
          gen = [s \in Streams |-> IF s = 1 THEN NewStream(TRUE, src) ELSE IdleStream]
    /\ api = NewApi(NewClient(ApiKey, JUndefined, BaseUrl))

SpecShapes == InitShapes /\ [][Next]_vars

-----------------------------------------------------------------------------
(* Two invocations of parseSSEStream at the same time                       *)

\* content then an unterminated [DONE]; a malformed line then content with
\* finish_reason
PairBodies ==
    {ContentLine \o <<LF>> \o DoneLine, BadLine \o <<LF>> \o BothLine \o <<LF>>}

InitPair ==
    /\ \E a \in PairBodies, b \in PairBodies :
          gen = [s \in Streams |-> NewStream(TRUE, IF s = 1 THEN a ELSE b)]
    /\ api = NewApi(NewClient(ApiKey, JUndefined, BaseUrl))

\* a read that does not deliver the whole rest delivers a multiple of this
\* many bytes
PairStride == 8

PairSizes(n) == {k \in 1..n : k % PairStride = 0 \/ k = n}

\* the pending read of invocation s delivers the next k bytes of its body
ReadPart(s) ==
    /\ gen[s].pc = "read"
    /\ ~gen[s].broken
    /\ \E k \in PairSizes(Len(gen[s].src) - gen[s].pos) :
          gen' = [gen EXCEPT ![s] =
                    Observed(OnRead(gen[s],
                                    SubSeq(gen[s].src, gen[s].pos + 1, gen[s].pos + k)))]
    /\ UNCHANGED api

NextPair ==
    \E s \in Streams :
        \/ ConsumerNext(s)
        \/ ConsumerReturn(s)
        \/ ConsumerThrow(s)
        \/ ReadPart(s)
        \/ ReadEnd(s)
        \/ ReadFail(s)

SpecPair == InitPair /\ [][NextPair]_vars

-----------------------------------------------------------------------------
(* The API methods as a state machine                                       *)

InitApi ==
    /\ gen = [s \in Streams |-> IdleStream]
    /\ \E d \in DefaultUserIds, base \in BaseUrls :
          api = NewApi(NewClient(ApiKey, d, base))

\* no call is running
CallOver ==
    \/ api.call.pc \in {"idle", "done"}
    \/ api.call.pc = "streaming" /\ gen[1].pc = "done"

\* the arguments a method can be called with
IdsOf(m) == IF m \in PathMethods THEN PathIds ELSE {<<>>}
PayloadsOf(m) == IF m \in BodyMethods THEN Payloads ELSE {"plain"}

\* the program calls a method, at most limit times: the method runs up to its
\* call of fetch; chat.stream only creates its generator
Invoke(limit) ==
    /\ CallOver
    /\ api.calls < limit
    /\ \E m \in Methods, u \in UserIds :
          \E id \in IdsOf(m), payload \in PayloadsOf(m), idna \in BOOLEAN :
              api' = [api EXCEPT !.calls = @ + 1,
                                 !.before = api.call.userId,
                                 !.call = IF m = "chat.stream"
                                          THEN [NewCall(m, u, id, payload)
                                                    EXCEPT !.pc = "created"]
                                          ELSE Start(NewCall(m, u, id, payload),
                                                     api.client, idna)]
    /\ gen' = [s \in Streams |-> IdleStream]

\* one call through the client
ApiInvoke == Invoke(1)

\* the consumer of chat.stream asks for the first chunk: the body of the
\* generator runs up to its call of fetch
ApiFirstNext ==
    /\ api.call.pc = "created"
    /\ \E idna \in BOOLEAN :
          api' = [api EXCEPT !.call = Start([@ EXCEPT !.asked = TRUE], api.client, idna)]
    /\ UNCHANGED gen

\* the consumer of chat.stream leaves before asking for a chunk
ApiReturnEarly ==
    /\ api.call.pc = "created"
    /\ api' = [api EXCEPT !.call = [@ EXCEPT !.pc = "done", !.outcome = "returned"]]
    /\ UNCHANGED gen

\* the consumer of chat.stream throws into it before asking for a chunk
ApiThrowEarly ==
    /\ api.call.pc = "created"
    /\ api' = [api EXCEPT !.call = Reject(@, OtherError(ConsumerError))]
    /\ UNCHANGED gen

\* the stream chat.stream delegates to, resumed by the pending next()
Delegated(resp) ==
    Resume([NewStream(resp.hasBody, resp.body) EXCEPT !.broken = resp.bodyError # "none"])

\* fetch resolves with one of the responses
Respond(responses) ==
    /\ api.call.pc = "fetching"
    /\ \E resp \in responses :
          /\ api' = [api EXCEPT !.call = OnResponse(@, resp)]
          /\ gen' = IF api'.call.pc = "streaming"
                    THEN [gen EXCEPT ![1] = Delegated(resp)]
                    ELSE gen

ApiRespond == Respond(Responses)

\* the pending response.json() settles: the body of the response has arrived,
\* or its read has failed
JsonSettles(responses) ==
    /\ api.call.pc = "json"
    /\ \E resp \in responses :
          /\ HeadOf(resp) = api.call.response
          /\ api' = [api EXCEPT !.call = OnJson(@, resp)]
    /\ UNCHANGED gen

ApiJson == JsonSettles(Responses)

\* fetch rejects
ApiFetchFail ==
    /\ api.call.pc = "fetching"
    /\ api' = [api EXCEPT !.call = OnFetchError(@)]
    /\ UNCHANGED gen

NextApi ==
    \/ ApiInvoke
    \/ ApiFirstNext
    \/ ApiReturnEarly
    \/ ApiThrowEarly
    \/ ApiRespond
    \/ ApiJson
    \/ ApiFetchFail
    \/ ConsumerNext(1)
    \/ ConsumerReturn(1)
    \/ ConsumerThrow(1)
    \/ ReadChunk(1)
    \/ ReadEnd(1)
    \/ ReadFail(1)

SpecApi == InitApi /\ [][NextApi]_vars

-----------------------------------------------------------------------------
(* Several calls, one after the other, through one client                   *)

\* the most calls made through one client
MaxCalls == 2

\* a 200 and a 404, each with an SSE body or an error body
CallResponses ==
    {r \in Responses :
        /\ r.status \in {200, 404}
        /\ r.statusText = <<>> /\ r.retryAfter = JNull
        /\ r.hasBody /\ r.bodyError = "none"
        /\ r.body \in {BodyString, ContentLine \o <<LF>> \o DoneLine \o <<LF>>}}

CallsInvoke == Invoke(MaxCalls)

CallsRespond == Respond(CallResponses)

CallsJson == JsonSettles(CallResponses)

NextCalls ==
    \/ CallsInvoke
    \/ ApiFirstNext
    \/ ApiReturnEarly
    \/ ApiThrowEarly
    \/ CallsRespond
    \/ CallsJson
    \/ ApiFetchFail
    \/ ConsumerNext(1)
    \/ ConsumerReturn(1)
    \/ ConsumerThrow(1)
    \/ ReadChunk(1)
    \/ ReadEnd(1)
    \/ ReadFail(1)

SpecCalls == InitApi /\ [][NextCalls]_vars

-----------------------------------------------------------------------------
(* Properties of the stream decoder                                         *)

\* the whole body delivered in one read, the consumer asking for every chunk
RECURSIVE RunOut(_)
RunOut(g) ==
    IF g.pc = "done" THEN g
    ELSE IF g.pc = "read" THEN
        (IF g.pos < Len(g.src)
         THEN RunOut(OnRead(g, SubSeq(g.src, g.pos + 1, Len(g.src))))
         ELSE RunOut(OnEnd(g)))
    ELSE RunOut(Resume(g))

OneRead(src) == RunOut(NewStream(TRUE, src)).out

\* the chunks of each body delivered in one read, tabulated once per body
OneReadOf == [src \in Bodies |-> OneRead(src)]

\* a run on a body that the consumer has not left or thrown into and in
\* which no read has failed
Passive(g) ==
    g.pc # "idle" /\ g.hasBody /\ ~g.abandoned /\ ~g.raised /\ g.readError = "none"

IsPrefix(a, b) == Len(a) <= Len(b) /\ SubSeq(b, 1, Len(a)) = a

\* C1: however the body is cut into reads (inside a line, inside "data: ",
\* inside a UTF-8 sequence, reads of no bytes), the chunks handed out are those
\* of the body delivered in one read: a prefix of them while the run goes on,
\* all of them when it has completed.
C1_SplitInvariant ==
    \A s \in Streams :
        Passive(gen[s]) =>
            /\ IsPrefix(gen[s].out, OneReadOf[gen[s].src])
            /\ gen[s].pc = "done" => gen[s].out = OneReadOf[gen[s].src]

\* a completed run of at least two chunks in which a read ended inside a
\* UTF-8 sequence
C1_Witness ==
    \E s \in Streams :
        /\ Passive(gen[s]) /\ gen[s].pc = "done" /\ gen[s].midCode
        /\ Len(gen[s].out) >= 2
        /\ gen[s].out = OneRead(gen[s].src)

\* C2: once the reader is acquired it is released exactly once on every exit
\* path (end-of-data, [DONE], finish_reason, the consumer's return(), a failed
\* read): never before the generator completes, never twice, and always by
\* the time it has completed.
C2_ReleasedOnce ==
    \A s \in Streams :
        /\ gen[s].acquired <= 1
        /\ gen[s].released <= gen[s].acquired
        /\ gen[s].pc = "done" => gen[s].released = gen[s].acquired
        /\ gen[s].pc # "done" => gen[s].released = 0

\* the consumer left after it was handed a chunk, and the reader is released
C2_Witness ==
    \E s \in Streams :
        /\ gen[s].abandoned /\ gen[s].out # <<>>
        /\ gen[s].acquired = 1 /\ gen[s].released = 1

\* C3: when reader.read() fails, the generator throws that same error to the
\* consumer, the reader is released before the error is thrown, and no chunk
\* is handed out after the failed read.
C3_ReadErrorPropagates ==
    \A s \in Streams :
        gen[s].readError # "none" =>
            /\ gen[s].pc = "done" /\ gen[s].outcome = "threw"
            /\ gen[s].thrown = gen[s].readError
            /\ gen[s].released = 1
            /\ Len(gen[s].events) >= 3
            /\ SubSeq(gen[s].events, Len(gen[s].events) - 2, Len(gen[s].events))
                   = <<"readerror", "release", "throw">>

\* a read failed after a chunk had been handed out
C3_Witness ==
    \E s \in Streams :
        gen[s].readError = "NetworkError" /\ gen[s].thrown = "NetworkError"
        /\ gen[s].out # <<>>

\* the text of a whole body
Text(bytes) == Decode(NewDecoder, bytes).out

IsBlank(line) == Trim(line) = <<>>
IsFilled(line) == ~IsBlank(line)

\* the last line of the body that is not blank is "data: [DONE]"
DoneIsFinal(src) ==
    LET filled == SelectSeq(SplitLines(Text(src)), IsFilled)
    IN  filled # <<>> /\ Trim(filled[Len(filled)]) = DataPrefix \o DoneSentinel

EndsWithOneTerminal(out) ==
    /\ out # <<>>
    /\ out[Len(out)] = TerminalChunk
    /\ \A i \in 1..(Len(out) - 1) : ~out[i].done

\* C4: when "data: [DONE]" is the final frame, the chunks end with exactly one
\* terminal chunk, whether the line ends with a newline (the loop yields it)
\* or not (the check after the loop yields it).
C4_DoneIsLast ==
    \A s \in Streams :
        /\ (Passive(gen[s]) /\ gen[s].pc = "done" /\ DoneIsFinal(gen[s].src))
               => EndsWithOneTerminal(gen[s].out)
        /\ (gen[s].pc = "yieldTail" /\ ~gen[s].raised)
               => (DoneIsFinal(gen[s].src) /\ EndsWithOneTerminal(gen[s].out))

\* a completed run on a body whose last line is an unterminated [DONE], after
\* an earlier chunk
C4_Witness ==
    \E s \in Streams :
        /\ Passive(gen[s]) /\ gen[s].pc = "done" /\ DoneIsFinal(gen[s].src)
        /\ gen[s].src[Len(gen[s].src)] # LF
        /\ Len(gen[s].out) = 2 /\ gen[s].out[2] = TerminalChunk

HasTerminal(g) == \E i \in 1..Len(g.out) : g.out[i].done

\* C5: once a terminal chunk has been handed out, the only step left is the
\* completion of the generator: no further chunk, no further line processed,
\* no further byte read; so no run hands out two terminal chunks.
C5_TerminalEnds ==
    [][\A s \in Streams :
          /\ HasTerminal(gen[s]) =>
                /\ gen'[s].out = gen[s].out
                /\ gen'[s].lines = gen[s].lines
                /\ gen'[s].pos = gen[s].pos
                /\ gen'[s].pc = "done"
          /\ Cardinality({i \in 1..Len(gen'[s].out) : gen'[s].out[i].done}) <= 1]_vars

\* the chunks handed out for the line whose JSON is in parsed
SinceMark(g) == SubSeq(g.out, g.mark + 1, Len(g.out))

\* C6: a data line with a truthy finish_reason yields, when it also has a
\* non-empty content, the content chunk and then the terminal chunk, and
\* otherwise the terminal chunk alone.
C6_ContentThenTerminal ==
    \A s \in Streams :
        (/\ gen[s].pc # "idle" /\ ~gen[s].abandoned /\ ~gen[s].raised
         /\ Truthy(FinishReason(gen[s].parsed))) =>
            SinceMark(gen[s]) =
                IF gen[s].pc = "yieldContent"
                THEN <<ContentChunk(DeltaContent(gen[s].parsed))>>
                ELSE IF Truthy(DeltaContent(gen[s].parsed))
                THEN <<ContentChunk(DeltaContent(gen[s].parsed)), TerminalChunk>>
                ELSE <<TerminalChunk>>

\* a completed run whose last line had content "b" and a finish_reason
C6_Witness ==
    \E s \in Streams :
        /\ Passive(gen[s]) /\ gen[s].pc = "done"
        /\ Truthy(FinishReason(gen[s].parsed))
        /\ SinceMark(gen[s]) = <<ContentChunk(JString(<<98>>)), TerminalChunk>>

\* a data line whose payload is neither the sentinel nor JSON
IsMalformed(line) ==
    /\ StartsWith(Trim(line), DataPrefix)
    /\ Slice(Trim(line), PrefixLen) # DoneSentinel
    /\ ~JSONParse(Slice(Trim(line), PrefixLen)).ok

IsWellFormed(bytes) == ~IsMalformed(Text(bytes))

RECURSIVE JoinLines(_)
JoinLines(parts) ==
    IF Len(parts) = 1 THEN parts[1]
    ELSE parts[1] \o <<LF>> \o JoinLines(Tail(parts))

\* the body without its malformed lines (each removed with its newline)
WithoutMalformed(src) ==
    LET parts == SplitLines(src)
        n == Len(parts)
    IN  JoinLines(Append(SelectSeq(SubSeq(parts, 1, n - 1), IsWellFormed),
                         IF IsWellFormed(parts[n]) THEN parts[n] ELSE <<>>))

\* C7: a data line that is not JSON yields no chunk and no error, and the
\* other lines are processed as if it were absent: the chunks are those of
\* the body with the malformed lines removed.
C7_MalformedSkipped ==
    \A s \in Streams :
        (Passive(gen[s]) /\ gen[s].pc = "done") =>
            /\ gen[s].outcome = "returned"
            /\ gen[s].out = OneRead(WithoutMalformed(gen[s].src))

\* a completed run on a body whose first line is malformed and whose second
\* line gave a chunk
C7_Witness ==
    \E s \in Streams :
        /\ Passive(gen[s]) /\ gen[s].pc = "done"
        /\ IsMalformed(Text(SplitLines(gen[s].src)[1]))
        /\ gen[s].out # <<>>

\* C8: on a response without a body the generator completes without a chunk
\* and without an error, and no reader is ever acquired.
C8_NoBody ==
    \A s \in Streams :
        (gen[s].pc # "idle" /\ ~gen[s].hasBody) =>
            /\ gen[s].pc \in {"start", "done"}
            /\ gen[s].out = <<>>
            /\ gen[s].acquired = 0 /\ gen[s].released = 0
            /\ (gen[s].pc = "done" /\ ~gen[s].raised) => gen[s].outcome = "returned"

\* the consumer asked for a chunk of a response without a body
C8_Witness ==
    \E s \in Streams :
        /\ ~gen[s].hasBody /\ gen[s].pc = "done" /\ ~gen[s].abandoned
        /\ ~gen[s].raised /\ gen[s].events = <<"return">>

-----------------------------------------------------------------------------
(* Properties of throwForStatus and the API methods                         *)

\* the documented table of error classes
KindFor(status) ==
    CASE status = 401 -> "AuthenticationError"
      [] status = 402 -> "PaymentRequiredError"
      [] status = 403 -> "ForbiddenError"
      [] status = 404 -> "NotFoundError"
      [] status = 422 -> "ValidationError"
      [] status = 429 -> "RateLimitError"
      [] status = 502 -> "ProviderError"
      [] OTHER -> "ByokError"

\* the call has ended on a response
Settled == api.call.pc = "done" /\ api.call.response # NoResponse

\* the error throwForStatus throws for the response of the call
Thrown == ThrowForStatus(api.call.response)

\* C9: the kind of the error thrown by throwForStatus is the one the table
\* gives for the status, whatever the body (JSON or not, any shape of error,
\* unreadable) and the headers, so two responses of one status give one kind;
\* and the status field of the error is the status of the response.
C9_KindByStatus ==
    Settled =>
        LET thrown == Thrown
        IN  /\ thrown.threw
            /\ thrown.error.kind = KindFor(api.call.response.status)
            /\ thrown.error.status = api.call.response.status
            /\ ~ResponseOk(api.call.response) =>
                  /\ api.call.error.kind = KindFor(api.call.response.status)
                  /\ api.call.error.status = api.call.response.status

TypedKinds ==
    {"AuthenticationError", "PaymentRequiredError", "ForbiddenError", "NotFoundError",
     "ValidationError", "RateLimitError", "ProviderError", "ByokError"}

\* C10: throwForStatus ends by throwing a typed error for every response, so
\* each method that receives a response that is not ok waits for the body
\* inside throwForStatus and then ends with that error: it never reads the
\* body as its result, returns no value, and chat.stream starts no stream on
\* the body.
C10_NotOkThrows ==
    (api.call.response # NoResponse /\ ~ResponseOk(api.call.response)) =>
        /\ api.call.pc \in {"json", "done"}
        /\ api.call.pc = "json" => api.call.outcome = "pending"
        /\ api.call.pc = "done" =>
              /\ api.call.outcome = "threw"
              /\ api.call.error.kind \in TypedKinds
              /\ api.call.error = Thrown.error
        /\ api.call.value = JUndefined
        /\ ~api.call.asSuccess
        /\ gen[1].pc = "idle"

\* a header value that is a decimal number: digits only, at least one
IsNumeric(header) ==
    /\ header.t = "string"
    /\ header.s # <<>>
    /\ \A i \in 1..Len(header.s) : IsDigit(header.s[i])

\* C11: the retryAfter of the RateLimitError of a 429 response is the
\* retry-after header as an integer when the header is a number, and is
\* undefined when the header is absent or not a number.
C11_RetryAfterParsed ==
    (Settled /\ api.call.response.status = 429) =>
        /\ api.call.error.kind = "RateLimitError"
        /\ api.call.error.retryAfter =
              IF IsNumeric(api.call.response.retryAfter)
              THEN NumberValue(api.call.response.retryAfter.s)
              ELSE JUndefined

\* a member of a JSON object, undefined for what is no object or has no such member
Member(v, key) ==
    IF v.t = "object" THEN LookupKey(v.kids, key, Len(v.kids)) ELSE JUndefined

\* the member, or the fallback when it is absent
MemberOr(v, key, fallback) ==
    IF Member(v, key).t \in {"undefined", "null"} THEN fallback ELSE Member(v, key)

\* what the three cases give for a response whose body parsed as r
CaseInfo(resp, r) ==
    IF ~r.ok
    THEN NoInfo(IF resp.statusText # <<>> THEN JString(resp.statusText)
                ELSE DefaultMessage(resp.status))
    ELSE IF Member(r.v, KeyError).t = "string"
    THEN NoInfo(Member(r.v, KeyError))
    ELSE IF Member(r.v, KeyError).t = "object"
    THEN [message |-> MemberOr(Member(r.v, KeyError), KeyMessage, DefaultMessage(resp.status)),
          code |-> Member(Member(r.v, KeyError), KeyCode),
          type |-> Member(Member(r.v, KeyError), KeyType),
          details |-> Member(Member(r.v, KeyError), KeyDetails)]
    ELSE NoInfo(DefaultMessage(resp.status))

\* the error of the call carries the info: message, code and type always,
\* details for ValidationError and ByokError only
Carries(e, info) ==
    /\ e.message = info.message
    /\ e.code = info.code
    /\ e.type = info.type
    /\ e.details = IF e.kind \in {"ValidationError", "ByokError"}
                   THEN info.details ELSE JUndefined

\* C12: message, code, type and details of the thrown error come
\* from the body by three cases: not JSON (status text or the generic text,
\* nothing else); error a string (that string, nothing else); error an object
\* (its members, the generic text for an absent message); and a body without
\* error gives the generic text and nothing else.
C12_ThreeCases ==
    (Settled /\ ~ResponseOk(api.call.response)) =>
        Carries(api.call.error,
                CaseInfo(api.call.response, ResponseJson(api.call.response)))

\* the call has handed a request to fetch
Requested == api.call.sent > 0

\* C13: every request a method issues carries the header Authorization:
\* Bearer <apiKey> and the header X-Byok-User.
C13_HeadersOnEveryRequest ==
    Requested =>
        /\ api.call.request.authorization =
              JString(<<66, 101, 97, 114, 101, 114, 32>> \o api.client.apiKey)
        /\ api.call.request.user.t = "string"

\* the X-Byok-User value for a per-call userId and a default
UserFor(userId, defaultUserId) ==
    IF userId.t = "string" THEN userId
    ELSE IF defaultUserId.t = "string" THEN defaultUserId
    ELSE JString(<<>>)

\* C14: every method takes a per-call userId that overrides defaultUserId for
\* that call only: each request carries as X-Byok-User the per-call userId if
\* given, else defaultUserId, else the empty string; and no step changes the
\* client's defaultUserId, so a later call without userId sends the default.
C14_PerCallOverride ==
    [][/\ api'.client = api.client
       /\ api'.call.sent > 0 =>
             api'.call.request.user =
                 UserFor(api'.call.userId, api'.client.defaultUserId)]_vars

\* C15: two invocations interleaved in any order of reads and requests for
\* chunks: each hands out the chunks it hands out when run alone (a prefix of
\* them at any time, all of them when it has completed undisturbed), and each
\* releases its own reader, once, when it completes and not when the other does.
C15_Isolated ==
    \A s \in Streams :
        gen[s].pc # "idle" =>
            /\ IsPrefix(gen[s].out, OneRead(gen[s].src))
            /\ (Passive(gen[s]) /\ gen[s].pc = "done") => gen[s].out = OneRead(gen[s].src)
            /\ gen[s].released = IF gen[s].pc = "done" /\ gen[s].acquired = 1 THEN 1 ELSE 0

\* both invocations are in the middle of a line, the first after a chunk, with
\* different texts in their buffers
C15_Witness ==
    /\ gen[1].pc = "read" /\ gen[2].pc = "read"
    /\ gen[1].out # <<>> /\ gen[2].pos > 0
    /\ gen[1].buffer # <<>> /\ gen[2].buffer # <<>>
    /\ gen[1].buffer # gen[2].buffer

\* the two shapes of a chunk
IsContentChunk(c) == ~c.done /\ c.content.t = "string" /\ c.content.s # <<>>
IsTerminalChunk(c) == c = TerminalChunk

\* C16: every chunk handed out is a content chunk {content: s, done: false}
\* with s a non-empty string, or the terminal chunk, whatever the JSON type of
\* delta.content; and a body of lines with empty or absent content and no
\* finish_reason gives no chunk.
C16_ChunkShapes ==
    \A s \in Streams :
        /\ \A i \in 1..Len(gen[s].out) :
              IsContentChunk(gen[s].out[i]) \/ IsTerminalChunk(gen[s].out[i])
        /\ gen[s].src \in {q \o <<LF>> : q \in QuietLines} => gen[s].out = <<>>

\* C17: when a read reports end-of-data, the text left in the buffer gives one
\* terminal chunk if its trimmed form is exactly "data: [DONE]"; any other
\* text, a complete data line with content or finish_reason included, gives no
\* chunk, and in both cases no error.
C17_LeftoverOnlyDone ==
    [][\A s \in Streams :
          (/\ gen[s].pc = "read"
           /\ gen[s].pos = Len(gen[s].src)
           /\ gen'[s].pc # "read"
           /\ gen'[s].readError = "none") =>
              /\ gen'[s].pc \in {"done", "yieldTail"}
              /\ gen'[s].out = gen[s].out \o
                    (IF Trim(gen[s].buffer) = DataPrefix \o DoneSentinel
                     THEN <<TerminalChunk>> ELSE <<>>)
              /\ gen'[s].outcome # "threw"]_vars

\* a completed run whose body is one unterminated, valid data line with
\* content and finish_reason: no chunk
C17_Witness ==
    \E s \in Streams :
        /\ Passive(gen[s]) /\ gen[s].pc = "done" /\ gen[s].outcome = "returned"
        /\ gen[s].src = BothLine
        /\ gen[s].buffer = BothLine
        /\ Truthy(FinishReason(JSONParse(Slice(gen[s].buffer, PrefixLen)).v))
        /\ gen[s].out = <<>>

\* C18: chat.stream sends nothing until the consumer asks for the first chunk
\* and exactly one request once it has; on a response that is not ok that
\* first request for a chunk waits for throwForStatus and ends with its typed
\* error: no chunk, no stream on the body, no reader acquired.
C18_LazyStream ==
    api.call.method = "chat.stream" =>
        /\ ~api.call.asked => (api.call.sent = 0 /\ api.call.request = NoRequest)
        /\ api.call.asked => api.call.sent = 1
        /\ (api.call.response # NoResponse /\ ~ResponseOk(api.call.response)) =>
              /\ api.call.pc \in {"json", "done"}
              /\ api.call.pc = "json" => api.call.outcome = "pending"
              /\ api.call.pc = "done" =>
                    /\ api.call.outcome = "threw"
                    /\ api.call.error.kind \in TypedKinds
                    /\ api.call.error = Thrown.error
              /\ gen[1] = IdleStream

\* C19: with reads that settle, a body that ends, and a consumer that keeps
\* asking, every invocation completes (returning, or throwing the read error)
\* with its reader released; and until then it is suspended only at the start,
\* at a yield (waiting for the consumer) or at a read (waiting for the bytes).
C19_Completes ==
    /\ [](\A s \in Streams :
            gen[s].pc \in {"idle", "done", "start", "read"} \cup YieldPoints)
    /\ \A s \in Streams :
          (gen[s].pc = "start") ~>
              (/\ gen[s].pc = "done"
               /\ gen[s].outcome \in {"returned", "threw"}
               /\ gen[s].released = gen[s].acquired)

\* completed at end-of-data after the whole body was read and two chunks
\* were handed out, the reader released
C19_Witness ==
    \E s \in Streams :
        /\ gen[s].pc = "done" /\ gen[s].outcome = "returned"
        /\ gen[s].readError = "none" /\ ~gen[s].abandoned
        /\ gen[s].pos = Len(gen[s].src) /\ Len(gen[s].src) > 0
        /\ Len(gen[s].out) = 2 /\ ~HasTerminal(gen[s])
        /\ gen[s].released = 1

=============================================================================
